---- MODULE Spec2Model ----
(***************************************************************************)
(* Model of the food-diary group bot (src/bot.py): the text classifiers,   *)
(* the response extractor, the fact store and the asynchronous handlers    *)
(* on_text, on_food_photo, cb_fix, the /profile dialogue and /linkprofile. *)
(*                                                                         *)
(* Texts are sequences of one-character strings.  A Cyrillic letter is     *)
(* written "/" followed by its transliteration ("/v" for the letter ve,    *)
(* "/V" for its capital), the en dash is "ndash" and any other non-ASCII   *)
(* symbol (emoji, warning sign) is "sym".                                  *)
(***************************************************************************)
EXTENDS Integers, Sequences, FiniteSets, TLC

\* Python's None and a present value, as sequences of length 0 and 1.
None == << >>

Some(v) == << v >>

IsNone(o) == o = << >>

Val(o) == o[1]

Min(a, b) == IF a <= b THEN a ELSE b

(***************************************************************************)
(* Character classes of Python's re module (str patterns).                 *)
(***************************************************************************)
DIGITS == {"0", "1", "2", "3", "4", "5", "6", "7", "8", "9"}

DigitVal(c) ==
    CASE c = "0" -> 0 [] c = "1" -> 1 [] c = "2" -> 2 [] c = "3" -> 3
      [] c = "4" -> 4 [] c = "5" -> 5 [] c = "6" -> 6 [] c = "7" -> 7
      [] c = "8" -> 8 [] c = "9" -> 9

\* \s
SPACES == {" ", "\n", "\t"}

\* characters that are not \w: white space, punctuation, symbols
NONWORD == SPACES \cup {".", ",", ":", ";", "-", "ndash", "sym", "!", "?", "(", ")", "'"}

\* the capital letters, Cyrillic and Latin, with their lower case
UPPER ==
    ("/A" :> "/a") @@ ("/B" :> "/b") @@ ("/V" :> "/v") @@ ("/G" :> "/g") @@ ("/D" :> "/d")
    @@ ("/E" :> "/e") @@ ("/YO" :> "/yo") @@ ("/ZH" :> "/zh") @@ ("/Z" :> "/z") @@ ("/I" :> "/i")
    @@ ("/J" :> "/j") @@ ("/K" :> "/k") @@ ("/L" :> "/l") @@ ("/M" :> "/m") @@ ("/N" :> "/n")
    @@ ("/O" :> "/o") @@ ("/P" :> "/p") @@ ("/R" :> "/r") @@ ("/S" :> "/s") @@ ("/T" :> "/t")
    @@ ("/U" :> "/u") @@ ("/F" :> "/f") @@ ("/H" :> "/h") @@ ("/C" :> "/c") @@ ("/CH" :> "/ch")
    @@ ("/SH" :> "/sh") @@ ("/SCH" :> "/sch") @@ ("/HARD" :> "/hard") @@ ("/Y" :> "/y") @@ ("/SOFT" :> "/soft")
    @@ ("/EH" :> "/eh") @@ ("/YU" :> "/yu") @@ ("/YA" :> "/ya") @@ ("A" :> "a") @@ ("B" :> "b")
    @@ ("C" :> "c") @@ ("D" :> "d") @@ ("E" :> "e") @@ ("F" :> "f") @@ ("G" :> "g")
    @@ ("H" :> "h") @@ ("I" :> "i") @@ ("J" :> "j") @@ ("K" :> "k") @@ ("L" :> "l")
    @@ ("M" :> "m") @@ ("N" :> "n") @@ ("O" :> "o") @@ ("P" :> "p") @@ ("Q" :> "q")
    @@ ("R" :> "r") @@ ("S" :> "s") @@ ("T" :> "t") @@ ("U" :> "u") @@ ("V" :> "v")
    @@ ("W" :> "w") @@ ("X" :> "x") @@ ("Y" :> "y") @@ ("Z" :> "z")

\* str.lower() of one character, the folding of re.IGNORECASE
Lower(c) == IF c \in DOMAIN UPPER THEN UPPER[c] ELSE c

LowerText(t) == [i \in 1..Len(t) |-> Lower(t[i])]

IsDigit(t, i) == i \in 1..Len(t) /\ t[i] \in DIGITS

IsSpace(t, i) == i \in 1..Len(t) /\ t[i] \in SPACES

IsWord(t, i) == i \in 1..Len(t) /\ t[i] \notin NONWORD

\* \b before position i (between t[i-1] and t[i])
WordBoundary(t, i) == IsWord(t, i - 1) # IsWord(t, i)

\* the literal w (lower case) at position i, ignoring case
Lit(t, i, w) == i >= 1 /\ i + Len(w) - 1 <= Len(t) /\ \A k \in 1..Len(w) : Lower(t[i + k - 1]) = w[k]

\* the literal w at position i, case-sensitive
LitExact(t, i, w) == i >= 1 /\ i + Len(w) - 1 <= Len(t) /\ \A k \in 1..Len(w) : t[i + k - 1] = w[k]

\* number of consecutive digits / white-space characters from position i
DigitRun(t, i) == Cardinality({k \in 1..(Len(t) + 1 - i) : \A j \in i..(i + k - 1) : t[j] \in DIGITS})

SpaceRun(t, i) == Cardinality({k \in 1..(Len(t) + 1 - i) : \A j \in i..(i + k - 1) : t[j] \in SPACES})

RECURSIVE ToInt(_, _, _)
\* int() of the k digits of t from position i
ToInt(t, i, k) == IF k = 0 THEN 0 ELSE 10 * ToInt(t, i, k - 1) + DigitVal(t[i + k - 1])

RECURSIVE FirstKept(_, _)
\* the first position from i on that holds no white space, Len(t) + 1 if none
FirstKept(t, i) ==
    IF i > Len(t) \/ t[i] \notin SPACES THEN i ELSE FirstKept(t, i + 1)

RECURSIVE LastKept(_, _)
\* the last position up to i that holds no white space, 0 if none
LastKept(t, i) ==
    IF i < 1 \/ t[i] \notin SPACES THEN i ELSE LastKept(t, i - 1)

\* str.strip()
strip(t) == SubSeq(t, FirstKept(t, 1), LastKept(t, Len(t)))

\* does the text contain the literal w (case-sensitive)
Contains(t, w) == \E i \in 1..(Len(t) + 1) : LitExact(t, i, w)

(***************************************************************************)
(* WEIGHT_RE and STEPS_RE.                                                 *)
(***************************************************************************)
\* the ways  \d{2,3}(?:[.,]\d)?  can match, in the order the greedy
\* matcher tries them: digits taken, fraction taken
WEIGHT_ALTS == << <<3, TRUE>>, <<3, FALSE>>, <<2, TRUE>>, <<2, FALSE>> >>

\* alternative a of the number matches at j and is followed by \b
WeightAltAt(t, j, a) ==
    LET d == WEIGHT_ALTS[a][1]
        f == WEIGHT_ALTS[a][2]
    IN  /\ DigitRun(t, j) >= d
        /\ f => (j + d <= Len(t) /\ t[j + d] \in {".", ","} /\ IsDigit(t, j + d + 1))
        /\ WordBoundary(t, j + d + (IF f THEN 2 ELSE 0))

\* group 1 at j as a weight in tenths of a kilogram (float of the text with
\* the comma replaced by a dot), or None
WeightNumberAt(t, j) ==
    LET ok == {a \in 1..4 : WeightAltAt(t, j, a)}
    IN  IF ok = {} THEN None
        ELSE LET a == CHOOSE x \in ok : \A y \in ok : x <= y
                 d == WEIGHT_ALTS[a][1]
             IN  Some(10 * ToInt(t, j, d) + (IF WEIGHT_ALTS[a][2] THEN DigitVal(t[j + d + 1]) ELSE 0))

WORD_VES == <<"/v","/e","/s">>

\* the match of WEIGHT_RE that starts at position i
WeightMatchAt(t, i) ==
    IF ~(i = 1 \/ WordBoundary(t, i)) THEN None
    ELSE LET withKw == IF Lit(t, i, WORD_VES)
                       THEN WeightNumberAt(t, i + 3 + SpaceRun(t, i + 3))
                       ELSE None
         IN  IF ~IsNone(withKw) THEN withKw ELSE WeightNumberAt(t, i)

\* WEIGHT_RE.search(t): group 1 of the leftmost match, in tenths of a kilogram
WEIGHT_RE(t) ==
    LET hits == {i \in 1..(Len(t) + 1) : ~IsNone(WeightMatchAt(t, i))}
    IN  IF hits = {} THEN None
        ELSE WeightMatchAt(t, CHOOSE i \in hits : \A j \in hits : i <= j)

STEP_UNITS == {<<"/sh","/a","/g","/o","/v">>, <<"/sh","/a","/g","/a">>, <<"/sh","/a","/g">>, <<"s","t","e","p","s">>, << >>}

\* (\d{3,6})\s*(?:unit)?\b  with k digits taken at i
StepsAltAt(t, i, k) ==
    /\ DigitRun(t, i) >= k
    /\ \E s \in 0..SpaceRun(t, i + k) : \E u \in STEP_UNITS :
          Lit(t, i + k + s, u) /\ WordBoundary(t, i + k + s + Len(u))

\* the match of STEPS_RE that starts at position i: group 1 as an integer
StepsMatchAt(t, i) ==
    IF ~(i = 1 \/ WordBoundary(t, i)) THEN None
    ELSE LET ok == {k \in 3..6 : StepsAltAt(t, i, k)}
         IN  IF ok = {} THEN None
             ELSE Some(ToInt(t, i, CHOOSE k \in ok : \A m \in ok : k >= m))

\* STEPS_RE.search(t): group 1 of the leftmost match
STEPS_RE(t) ==
    LET hits == {i \in 1..(Len(t) + 1) : ~IsNone(StepsMatchAt(t, i))}
    IN  IF hits = {} THEN None
        ELSE StepsMatchAt(t, CHOOSE i \in hits : \A j \in hits : i <= j)

(***************************************************************************)
(* The question patterns: each is a set of alternatives, an alternative is *)
(* a sequence of words joined by \s+ and followed by \b.                   *)
(***************************************************************************)
ASK_MY_WEIGHT_RE ==
    {
       << <<"/k","/a","/k","/o","/j">>, <<"/m","/o","/j">>, <<"/v","/e","/s">> >>,
       << <<"/m","/o","/j">>, <<"/v","/e","/s">>, <<"/s","/e","/j","/ch","/a","/s">> >>,
       << <<"/s","/k","/o","/l","/soft","/k","/o">>, <<"/ya">>, <<"/v","/e","/sh","/u">> >> }
ASK_MY_HEIGHT_RE ==
    {
       << <<"/k","/a","/k","/o","/j">>, <<"/m","/o","/j">>, <<"/r","/o","/s","/t">> >>,
       << <<"/m","/o","/j">>, <<"/r","/o","/s","/t">> >> }
ASK_MY_HW_RE ==
    {
       << <<"/k","/a","/k","/o","/j">>, <<"/m","/o","/j">>, <<"/v","/e","/s">>, <<"/i">>, <<"/r","/o","/s","/t">> >>,
       << <<"/m","/o","/j">>, <<"/v","/e","/s">>, <<"/i">>, <<"/r","/o","/s","/t">> >>,
       << <<"/s","/k","/o","/l","/soft","/k","/o">>, <<"/m","/o","/j">>, <<"/v","/e","/s">>, <<"/i">>, <<"/r","/o","/s","/t">> >> }
ASK_EATEN_TODAY_RE ==
    {
       << <<"/s","/k","/o","/l","/soft","/k","/o">>, <<"/ya">>, <<"/s","/hard","/e","/l">> >>,
       << <<"/s","/k","/o","/l","/soft","/k","/o">>, <<"/ya">>, <<"/s","/hard","/e","/l","/a">> >>,
       << <<"/s","/k","/o","/l","/soft","/k","/o">>, <<"/k","/a","/l","/o","/r","/i","/j">>, <<"/s","/e","/g","/o","/d","/n","/ya">>, <<"/s","/hard","/e","/l">> >>,
       << <<"/s","/k","/o","/l","/soft","/k","/o">>, <<"/k","/a","/l","/o","/r","/i","/i">>, <<"/s","/e","/g","/o","/d","/n","/ya">>, <<"/s","/hard","/e","/l">> >>,
       << <<"/s","/k","/o","/l","/soft","/k","/o">>, <<"/k","/a","/l","/o","/r","/i","/j">>, <<"/s","/e","/g","/o","/d","/n","/ya">>, <<"/s","/hard","/e","/l","/a">> >>,
       << <<"/s","/k","/o","/l","/soft","/k","/o">>, <<"/k","/a","/l","/o","/r","/i","/i">>, <<"/s","/e","/g","/o","/d","/n","/ya">>, <<"/s","/hard","/e","/l","/a">> >>,
       << <<"/s","/k","/o","/l","/soft","/k","/o">>, <<"/k","/a","/l","/o","/r","/i","/j">>, <<"/s","/e","/g","/o","/d","/n","/ya">> >>,
       << <<"/s","/k","/o","/l","/soft","/k","/o">>, <<"/k","/a","/l","/o","/r","/i","/i">>, <<"/s","/e","/g","/o","/d","/n","/ya">> >> }
ASK_BURNED_TODAY_RE ==
    {
       << <<"/s","/k","/o","/l","/soft","/k","/o">>, <<"/ya">>, <<"/s","/zh","/e","/g">> >>,
       << <<"/s","/k","/o","/l","/soft","/k","/o">>, <<"/ya">>, <<"/s","/zh","/yo","/g">> >>,
       << <<"/s","/k","/o","/l","/soft","/k","/o">>, <<"/ya">>, <<"/i","/z","/r","/a","/s","/h","/o","/d","/o","/v","/a","/l">> >>,
       << <<"/s","/k","/o","/l","/soft","/k","/o">>, <<"/ya">>, <<"/p","/o","/t","/r","/a","/t","/i","/l">> >>,
       << <<"/s","/k","/o","/l","/soft","/k","/o">>, <<"/ya">>, <<"/k","/a","/l","/o","/r","/i","/j">>, <<"/s","/zh","/e","/g">> >>,
       << <<"/s","/k","/o","/l","/soft","/k","/o">>, <<"/ya">>, <<"/k","/a","/l","/o","/r","/i","/j">>, <<"/s","/zh","/yo","/g">> >>,
       << <<"/s","/k","/o","/l","/soft","/k","/o">>, <<"/ya">>, <<"/k","/a","/l","/o","/r","/i","/i">>, <<"/s","/zh","/e","/g">> >>,
       << <<"/s","/k","/o","/l","/soft","/k","/o">>, <<"/ya">>, <<"/k","/a","/l","/o","/r","/i","/i">>, <<"/s","/zh","/yo","/g">> >> }
ASK_BALANCE_RE ==
    {
       << <<"/b","/a","/l","/a","/n","/s">>, <<"/k","/a","/l","/o","/r","/i","/j">> >>,
       << <<"/b","/a","/l","/a","/n","/s">>, <<"/k","/a","/l","/o","/r","/i","/i">> >>,
       << <<"/p","/r","/o","/f","/i","/c","/i","/t">> >>,
       << <<"/d","/e","/f","/i","/c","/i","/t">> >> }
ASK_SUMMARY_RE ==
    {
       << <<"/s","/v","/o","/d","/k","/a">>, <<"/z","/a">>, <<"/d","/e","/n","/soft">> >>,
       << <<"/s","/a","/m","/m","/a","/r","/i">>, <<"/z","/a">>, <<"/d","/e","/n","/soft">> >>,
       << <<"/i","/t","/o","/g","/i">>, <<"/d","/n","/ya">> >>,
       << <<"/i","/t","/o","/g">>, <<"/z","/a">>, <<"/d","/e","/n","/soft">> >> }

RECURSIVE PhraseEnd(_, _, _, _)
\* position after words n.. of the phrase matched from position i, 0 if they do not match
PhraseEnd(t, i, words, n) ==
    IF ~Lit(t, i, words[n]) THEN 0
    ELSE LET e == i + Len(words[n])
         IN  IF n = Len(words) THEN e
             ELSE IF SpaceRun(t, e) = 0 THEN 0
             ELSE PhraseEnd(t, e + SpaceRun(t, e), words, n + 1)

\* pattern.search(t) for a question pattern
AskSearch(pattern, t) ==
    \E words \in pattern : \E i \in 1..Len(t) :
        LET e == PhraseEnd(t, i, words, 1) IN e > 0 /\ WordBoundary(t, e)

(***************************************************************************)
(* Response extractor: parse_kcal_range and the dish title.                *)
(***************************************************************************)
KALOR_LABELS == {<<"/k","/a","/l","/o","/r","/i","/i",":">>, <<"/k","/a","/l","/o","/r","/i","/j",":">>}

DASHES == {"-", "ndash"}

\* CAL_RANGE_RE matched from position i: <<low, high>> as integers, or None
CalRangeAt(t, i) ==
    IF ~\E w \in KALOR_LABELS : Lit(t, i, w) THEN None
    ELSE LET j  == i + 8 + SpaceRun(t, i + 8)
             r1 == DigitRun(t, j)
             d  == j + r1 + SpaceRun(t, j + r1)
             k  == d + 1 + SpaceRun(t, d + 1)
             r2 == Min(4, DigitRun(t, k))
         IN  IF r1 \in 2..4 /\ d <= Len(t) /\ t[d] \in DASHES /\ r2 >= 2
             THEN Some(<<ToInt(t, j, r1), ToInt(t, k, r2)>>)
             ELSE None

\* CAL_RANGE_RE.search(t): groups 2 and 3 of the leftmost match
CAL_RANGE_RE(t) ==
    LET hits == {i \in 1..Len(t) : ~IsNone(CalRangeAt(t, i))}
    IN  IF hits = {} THEN None
        ELSE CalRangeAt(t, CHOOSE i \in hits : \A j \in hits : i <= j)

\* a parse that returns the two numbers in the order they are written
parse_kcal_range_as_written(text) ==
    LET m == CAL_RANGE_RE(text)
    IN  IF IsNone(m) THEN <<None, None>> ELSE <<Some(Val(m)[1]), Some(Val(m)[2])>>

\* parse_kcal_range(text) -> <<low, high>>, each None or Some(integer)
parse_kcal_range(text) ==
    LET m == CAL_RANGE_RE(text)
    IN  IF IsNone(m) THEN <<None, None>>
        ELSE LET low == Val(m)[1]
                 high == Val(m)[2]
             IN  IF low > high THEN <<Some(high), Some(low)>> ELSE <<Some(low), Some(high)>>

DISH_LABEL == <<"/B","/l","/yu","/d","/o",":">>

DEFAULT_TITLE == <<"/E","/d","/a">>

\* the characters of t from position q up to the end of its line
RestOfLine(t, q) ==
    LET nl == {i \in q..Len(t) : t[i] = "\n"}
    IN  IF nl = {} THEN SubSeq(t, q, Len(t))
        ELSE SubSeq(t, q, (CHOOSE i \in nl : \A j \in nl : i <= j) - 1)

\* re.search(r"Dish:\s*(.+)", analysis) from position i: group 1, or None
DishAt(t, i) ==
    IF ~LitExact(t, i, DISH_LABEL) THEN None
    ELSE LET p == i + Len(DISH_LABEL)
             \* \s* is greedy and gives white space back until .+ finds a character
             ok == {s \in 0..SpaceRun(t, p) : p + s <= Len(t) /\ t[p + s] # "\n"}
         IN  IF ok = {} THEN None
             ELSE Some(RestOfLine(t, p + (CHOOSE s \in ok : \A r \in ok : s >= r)))

\* the title of a new meal: the caption, else the dish line, else the default
meal_title(caption, analysis) ==
    IF strip(caption) # << >> THEN strip(caption)
    ELSE LET hits == {i \in 1..Len(analysis) : ~IsNone(DishAt(analysis, i))}
         IN  IF hits = {} THEN DEFAULT_TITLE
             ELSE strip(Val(DishAt(analysis, CHOOSE i \in hits : \A j \in hits : i <= j)))

(***************************************************************************)
(* extract_correction_text.                                                *)
(***************************************************************************)
WORD_ISPRAV == <<"/i","/s","/p","/r","/a","/v","/soft">>

WORD_ETO == <<"/eh","/t","/o">>

WORD_NA == <<"/n","/a">>

WORD_FOTO == <<"/f","/o","/t","/o">>

WORD_NE == <<"/n","/e">>

NoNewline(t, q) == \A i \in q..Len(t) : t[i] # "\n"

\* position after group 1 of CORRECT_PREFIX_RE matched at the start of t, 0 if none
CorrectPrefixEnd(t) ==
    IF Lit(t, 1, WORD_ISPRAV) THEN 1 + Len(WORD_ISPRAV)
    ELSE IF Lit(t, 1, WORD_ETO) THEN 1 + Len(WORD_ETO)
    ELSE IF Lit(t, 1, WORD_NA) /\ Lit(t, 3 + SpaceRun(t, 3), WORD_FOTO)
         THEN 3 + SpaceRun(t, 3) + Len(WORD_FOTO)
    ELSE 0

\* the ways  \s*:?\s*(.+)$  can match from p: <<spaces, colon, spaces>>
CorrectTails(t, p) ==
    {x \in (0..SpaceRun(t, p)) \X {0, 1} \X (0..Len(t)) :
        /\ x[2] = 1 => (p + x[1] <= Len(t) /\ t[p + x[1]] = ":")
        /\ x[3] <= SpaceRun(t, p + x[1] + x[2])
        /\ p + x[1] + x[2] + x[3] <= Len(t)
        /\ NoNewline(t, p + x[1] + x[2] + x[3])}

\* the greedy matcher's order of preference
TailBefore(x, y) ==
    \/ x[1] > y[1]
    \/ x[1] = y[1] /\ x[2] > y[2]
    \/ x[1] = y[1] /\ x[2] = y[2] /\ x[3] >= y[3]

\* CORRECT_PREFIX_RE.match(t): group 2, or None
CORRECT_PREFIX_RE(t) ==
    LET p == CorrectPrefixEnd(t)
    IN  IF p = 0 \/ CorrectTails(t, p) = {} THEN None
        ELSE LET x == CHOOSE a \in CorrectTails(t, p) : \A b \in CorrectTails(t, p) : TailBefore(a, b)
             IN  Some(SubSeq(t, p + x[1] + x[2] + x[3], Len(t)))

\* re.match(r"^eto\s+ne\s+", t)
EtoNeMatch(t) ==
    /\ Lit(t, 1, WORD_ETO)
    /\ SpaceRun(t, 4) >= 1
    /\ Lit(t, 4 + SpaceRun(t, 4), WORD_NE)
    /\ SpaceRun(t, 6 + SpaceRun(t, 4)) >= 1

\* re.search(r"\ba\s+(.+)$", t) from position i: group 1, or None
ASearchAt(t, i) ==
    IF ~(WordBoundary(t, i) /\ Lit(t, i, <<"/a">>)) THEN None
    ELSE LET ok == {s \in 1..SpaceRun(t, i + 1) : i + 1 + s <= Len(t) /\ NoNewline(t, i + 1 + s)}
         IN  IF ok = {} THEN None
             ELSE Some(SubSeq(t, i + 1 + (CHOOSE s \in ok : \A r \in ok : s >= r), Len(t)))

\* extract_correction_text(text) -> None or Some(text)
extract_correction_text(text) ==
    LET t == strip(text)
        m == CORRECT_PREFIX_RE(t)
        hits == {i \in 1..Len(t) : ~IsNone(ASearchAt(t, i))}
    IN  IF t = << >> THEN None
        ELSE IF ~IsNone(m) THEN Some(strip(Val(m)))
        ELSE IF EtoNeMatch(t) /\ hits # {}
             THEN Some(strip(Val(ASearchAt(t, CHOOSE i \in hits : \A j \in hits : i <= j))))
        ELSE IF Len(t) <= 80 THEN Some(t)
        ELSE None

\* truthiness of an optional text: present and not empty
Truthy(o) == ~IsNone(o) /\ Val(o) # << >>

\* corr[:120]
new_title(corr) == SubSeq(corr, 1, Min(120, Len(corr)))

(***************************************************************************)
(* Metrics helpers.                                                        *)
(***************************************************************************)
\* round() of n/2: Python rounds a half to the even neighbour
RoundHalf(n) == IF n % 2 = 0 THEN n \div 2
                ELSE IF ((n - 1) \div 2) % 2 = 0 THEN (n - 1) \div 2 ELSE (n + 1) \div 2

\* kcal_mid(low, high)
kcal_mid(low, high) == IF IsNone(low) \/ IsNone(high) THEN None ELSE Some(RoundHalf(Val(low) + Val(high)))

(***************************************************************************)
(* Bounds of the model and constants of the program.                       *)
(***************************************************************************)
Users == {1, 2}

\* group chats; scope 0 of the profiles table is the private, global profile
Chats == {100, 200}

GLOBAL_SCOPE == 0

\* how many inbound events (messages, button presses) a run receives
MaxEvents == 2

\* how many handlers may be suspended at an await at the same time
MaxTasks == 2

\* the clock counts ticks; a second has this many (datetime.now() has microseconds)
TicksPerSec == 2

TTL_MINUTES == 10

TTL == TTL_MINUTES * 60 * TicksPerSec

\* how far beyond one time-to-live after its start a run may last, in ticks
MaxExtra == 1

TicksPerHour == 3600 * TicksPerSec

TicksPerDay == 24 * TicksPerHour

EVENING_HOUR == 21

\* the local time at which a run starts: 20:55, five minutes before the evening hour
START == (EVENING_HOUR * 60 - 5) * 60 * TicksPerSec

\* isoformat(timespec="seconds"): the microseconds are dropped
Truncate(t) == t - (t % TicksPerSec)

\* datetime.hour
HourOf(t) == (t % TicksPerDay) \div TicksPerHour

\* replace(hour=0, minute=0, second=0) and replace(hour=23, minute=59, second=59)
DayStart(t) == t - (t % TicksPerDay)

DayEnd(t) == DayStart(t) + TicksPerDay - TicksPerSec

MIN_WEIGHT == 300

MAX_WEIGHT == 3000

MIN_STEPS == 300

MAX_STEPS == 100000

MIN_HEIGHT == 120

MAX_HEIGHT == 230

MAX_NAME == 30

\* the texts of group messages the model draws from
TEXTS == <<
    <<"8","2",".","4">>,
    <<"8","4","0","0"," ","/sh","/a","/g","/o","/v">>,
    <<"3","0","0">>,
    <<"5","0","0">>,
    <<"2","5">>,
    <<"/m","/o","/j"," ","/v","/e","/s"," ","/i"," ","/r","/o","/s","/t">>,
    <<"/i","/s","/p","/r","/a","/v","/soft",":"," ","/s","/u","/p">>,
    [i \in 1..81 |-> "x"],
    <<"9","9","9","9","9","9">>,
    <<"/k","/a","/k","/o","/j"," ","/m","/o","/j"," ","/v","/e","/s"," ","/i"," ","/r","/o","/s","/t">>,
    <<"/s","/k","/o","/l","/soft","/k","/o"," ","/ya"," ","/s","/hard","/e","/l">>,
    <<"/s","/k","/o","/l","/soft","/k","/o"," ","/ya"," ","/s","/zh","/yo","/g">>,
    <<"/b","/a","/l","/a","/n","/s"," ","/k","/a","/l","/o","/r","/i","/j">>,
    <<"/i","/t","/o","/g","/i"," ","/d","/n","/ya">>,
    <<"/eh","/t","/o"," ","/n","/e"," ","/s","/u","/p",","," ","/a"," ","/b","/o","/r","/sch">>,
    <<"/m","/o","/j"," ","/v","/e","/s"," ","/s","/e","/j","/ch","/a","/s">>,
    <<"/i","/s","/p","/r","/a","/v","/soft",":"," ">> \o [i \in 1..121 |-> "y"] >>

\* the captions of photos: none, or a dish name
CAPTIONS == {<< >>, <<"/p","/l","/o","/v">>}

\* what the completion request can do: answer (the content, before strip()),
\* or raise; an error is given by its repr()
GROQ_OUTCOMES == {
    [kind |-> "text", text |-> <<"/B","/l","/yu","/d","/o",":"," ","/b","/o","/r","/sch","\n","/K","/a","/l","/o","/r","/i","/i",":"," ","6","5","0","-","8","5","0"," ","/k","/k","/a","/l">>],
    [kind |-> "text", text |-> <<"/K","/a","/l","/o","/r","/i","/i",":"," ","8","5","0"," ","-"," ","6","5","0","\n">>],
    [kind |-> "text", text |-> <<"/N","/e"," ","/u","/v","/e","/r","/e","/n">>],
    [kind |-> "text", text |-> << >>],
    [kind |-> "error", text |-> <<"A","P","I","T","i","m","e","o","u","t","E","r","r","o","r","(","'","R","e","q","u","e","s","t"," ","t","i","m","e","d"," ","o","u","t",".","'",")">>],
    [kind |-> "error", text |-> <<"A","u","t","h","e","n","t","i","c","a","t","i","o","n","E","r","r","o","r","(","'","E","r","r","o","r"," ","c","o","d","e",":"," ","4","0","1","'",")">>] }

VARIABLES
    now,               \* the wall clock, in ticks since a midnight
    groq_client,       \* TRUE when GROQ_API_KEY is set
    chats,             \* table chats: rows [chat_id, bound, goal]
    profiles,          \* table profiles
    weights,           \* table weights, in insertion order
    steps,             \* table steps, in insertion order
    meals,             \* table meals, in insertion order
    meal_corrections,  \* table meal_corrections, in insertion order
    pending_fixes,     \* table pending_fixes
    fsm,               \* MemoryStorage: each user's dialogue state and data
    msg_seq,           \* per chat, the id of the last message the bot sent
    buttons,           \* the inline keyboards of the bot's messages
    delivered,         \* how many updates the dispatcher has handed to handlers
    tasks              \* the handler invocations: running ones and the last returned ones

vars == <<now, groq_client, chats, profiles, weights, steps, meals, meal_corrections,
          pending_fixes, fsm, msg_seq, buttons, delivered, tasks>>

store == <<chats, profiles, weights, steps, meals, meal_corrections, pending_fixes>>

(***************************************************************************)
(* The store accessors, each one SQL statement.                            *)
(***************************************************************************)
\* ensure_chat: INSERT OR IGNORE INTO chats(chat_id)
ensure_chat(tbl, chat_id) ==
    IF \E r \in tbl : r.chat_id = chat_id THEN tbl
    ELSE tbl \cup {[chat_id |-> chat_id, bound |-> 0, goal |-> "maintain"]}

\* set_bound: UPDATE chats SET bound=? WHERE chat_id=?
set_bound(tbl, chat_id, bound) ==
    {IF r.chat_id = chat_id THEN [r EXCEPT !.bound = bound] ELSE r : r \in tbl}

\* bound_chats: SELECT chat_id FROM chats WHERE bound=1
bound_chats(tbl) == {r.chat_id : r \in {x \in tbl : x.bound = 1}}

\* get_goal
get_goal(tbl, chat_id) ==
    IF \E r \in tbl : r.chat_id = chat_id
    THEN (CHOOSE r \in tbl : r.chat_id = chat_id).goal
    ELSE "maintain"

\* an insert into a table without the key of (chat_id, user_id)
insert_profile(tbl, chat_id, user_id, name, height_cm, weight_kg, ts) ==
    tbl \cup {[chat_id |-> chat_id, user_id |-> user_id, name |-> name,
               height_cm |-> height_cm, weight_kg |-> weight_kg, updated_at |-> ts]}

\* upsert_profile: INSERT ... ON CONFLICT(chat_id, user_id) DO UPDATE SET every field
upsert_profile(tbl, chat_id, user_id, name, height_cm, weight_kg, ts) ==
    {r \in tbl : ~(r.chat_id = chat_id /\ r.user_id = user_id)}
    \cup {[chat_id |-> chat_id, user_id |-> user_id, name |-> name,
           height_cm |-> height_cm, weight_kg |-> weight_kg, updated_at |-> ts]}

\* get_profile: the row of (chat_id, user_id), or None
get_profile(tbl, chat_id, user_id) ==
    LET rows == {r \in tbl : r.chat_id = chat_id /\ r.user_id = user_id}
    IN  IF rows = {} THEN None ELSE Some(CHOOSE r \in rows : TRUE)

\* save_weight: INSERT INTO weights
save_weight(tbl, chat_id, user_id, w, ts) ==
    Append(tbl, [chat_id |-> chat_id, user_id |-> user_id, dt |-> ts, weight |-> w])

\* save_steps: INSERT INTO steps
save_steps(tbl, chat_id, user_id, s, ts) ==
    Append(tbl, [chat_id |-> chat_id, user_id |-> user_id, dt |-> ts, steps |-> s])

\* save_meal: INSERT INTO meals
save_meal(tbl, chat_id, user_id, title, kcal_low, kcal_high, bot_message_id, ts) ==
    Append(tbl, [chat_id |-> chat_id, user_id |-> user_id, dt |-> ts, title |-> title,
                 kcal_low |-> kcal_low, kcal_high |-> kcal_high,
                 bot_message_id |-> bot_message_id])

\* find_meal_by_bot_message: the rows of (chat_id, bot_message_id); the caller
\* only tests whether one exists
find_meal_by_bot_message(tbl, chat_id, bot_message_id) ==
    {i \in 1..Len(tbl) : tbl[i].chat_id = chat_id /\ tbl[i].bot_message_id = bot_message_id}

\* an update keyed by the message id alone
update_meal_by_message_id(tbl, chat_id, bot_message_id, title, kcal_low, kcal_high) ==
    [i \in 1..Len(tbl) |->
        IF tbl[i].bot_message_id = bot_message_id
        THEN [tbl[i] EXCEPT !.title = title, !.kcal_low = kcal_low, !.kcal_high = kcal_high]
        ELSE tbl[i]]

\* an update that keeps a known range when the new one is unknown
update_meal_keeping_known(tbl, chat_id, bot_message_id, title, kcal_low, kcal_high) ==
    [i \in 1..Len(tbl) |->
        IF tbl[i].chat_id = chat_id /\ tbl[i].bot_message_id = bot_message_id
        THEN [tbl[i] EXCEPT !.title = title,
                            !.kcal_low = IF IsNone(kcal_low) THEN @ ELSE kcal_low,
                            !.kcal_high = IF IsNone(kcal_high) THEN @ ELSE kcal_high]
        ELSE tbl[i]]

\* update_meal_by_bot_message: UPDATE meals SET title, kcal_low, kcal_high
\* WHERE chat_id=? AND bot_message_id=?
update_meal_by_bot_message(tbl, chat_id, bot_message_id, title, kcal_low, kcal_high) ==
    [i \in 1..Len(tbl) |->
        IF tbl[i].chat_id = chat_id /\ tbl[i].bot_message_id = bot_message_id
        THEN [tbl[i] EXCEPT !.title = title, !.kcal_low = kcal_low, !.kcal_high = kcal_high]
        ELSE tbl[i]]

\* log_correction: INSERT INTO meal_corrections
log_correction(tbl, chat_id, user_id, bot_message_id, correction_text, ts) ==
    Append(tbl, [chat_id |-> chat_id, user_id |-> user_id, dt |-> ts,
                 bot_message_id |-> bot_message_id, correction_text |-> correction_text])

\* set_pending_fix: INSERT ... ON CONFLICT(chat_id, user_id) DO UPDATE
set_pending_fix(tbl, chat_id, user_id, bot_message_id, ts) ==
    {r \in tbl : ~(r.chat_id = chat_id /\ r.user_id = user_id)}
    \cup {[chat_id |-> chat_id, user_id |-> user_id,
           bot_message_id |-> bot_message_id, created_at |-> ts]}

\* get_pending_fix: the row of (chat_id, user_id), or None
get_pending_fix(tbl, chat_id, user_id) ==
    LET rows == {r \in tbl : r.chat_id = chat_id /\ r.user_id = user_id}
    IN  IF rows = {} THEN None ELSE Some(CHOOSE r \in rows : TRUE)

\* clear_pending_fix: DELETE FROM pending_fixes WHERE chat_id=? AND user_id=?
clear_pending_fix(tbl, chat_id, user_id) ==
    {r \in tbl : ~(r.chat_id = chat_id /\ r.user_id = user_id)}

\* the rows of a table of (chat_id, user_id) whose dt lies in the day of t
RowsToday(tbl, chat_id, user_id, t) ==
    SelectSeq(tbl, LAMBDA r : /\ r.chat_id = chat_id /\ r.user_id = user_id
                              /\ r.dt >= DayStart(t) /\ r.dt <= DayEnd(t))

\* a selection of the meals of (chat_id, user_id) without the day
meals_of_any_day(tbl, chat_id, user_id, t) ==
    SelectSeq(tbl, LAMBDA r : r.chat_id = chat_id /\ r.user_id = user_id)

\* meals_today
meals_today(tbl, chat_id, user_id, t) == RowsToday(tbl, chat_id, user_id, t)

RECURSIVE SumSteps(_)
SumSteps(rows) == IF rows = << >> THEN 0 ELSE Head(rows).steps + SumSteps(Tail(rows))

\* steps_today: COALESCE(SUM(steps), 0) over the day
steps_today(tbl, chat_id, user_id, t) == SumSteps(RowsToday(tbl, chat_id, user_id, t))

RECURSIVE SumMid(_)
SumMid(rows) ==
    IF rows = << >> THEN 0
    ELSE LET mid == kcal_mid(Head(rows).kcal_low, Head(rows).kcal_high)
         IN  (IF IsNone(mid) THEN 0 ELSE Val(mid)) + SumMid(Tail(rows))

\* total_intake_today -> <<total_mid, meals_count, known_count>>
total_intake_today(tbl, chat_id, user_id, t) ==
    LET rows == meals_today(tbl, chat_id, user_id, t)
    IN  <<SumMid(rows), Len(rows),
          Len(SelectSeq(rows, LAMBDA r : ~IsNone(kcal_mid(r.kcal_low, r.kcal_high))))>>

\* last_weight: ORDER BY dt DESC LIMIT 1; rows of the same second tie, and
\* any of them may be the one returned
last_weight(tbl, chat_id, user_id) ==
    LET mine == {i \in 1..Len(tbl) : tbl[i].chat_id = chat_id /\ tbl[i].user_id = user_id}
        top  == {i \in mine : \A j \in mine : tbl[i].dt >= tbl[j].dt}
    IN  IF mine = {} THEN {None} ELSE {Some(tbl[i]) : i \in top}

\* an estimate cut to an integer without rounding
estimate_burned_kcal_truncated(nsteps, weight_kg) ==
    IF IsNone(weight_kg) \/ Val(weight_kg) = 0 THEN {nsteps \div 25}
    ELSE {(nsteps * Val(weight_kg)) \div 17500}

\* estimate_burned_kcal_from_steps: round(steps * 0.04 * weight_kg / 70), the
\* weight in tenths of a kilogram.  The product is a float: on an exact half
\* its rounding error decides the direction, so both neighbours are possible.
estimate_burned_kcal_from_steps(nsteps, weight_kg) ==
    LET n == IF IsNone(weight_kg) \/ Val(weight_kg) = 0 THEN nsteps ELSE nsteps * Val(weight_kg)
        d == IF IsNone(weight_kg) \/ Val(weight_kg) = 0 THEN 25 ELSE 17500
        q == n \div d
        r == n % d
    IN  IF 2 * r < d THEN {q} ELSE IF 2 * r > d THEN {q + 1} ELSE {q, q + 1}

(***************************************************************************)
(* The analysis texts.                                                     *)
(***************************************************************************)
TEXT_NOT_CONFIGURED == <<"sym","sym"," ","G","r","o","q"," ","/n","/e"," ","/n","/a","/s","/t","/r","/o","/e","/n",":"," ","/d","/o","/b","/a","/v","/soft"," ","G","R","O","Q","_","A","P","I","_","K","E","Y"," ","/v"," ","R","a","i","l","w","a","y"," ","V","a","r","i","a","b","l","e","s",".">>

TEXT_NOT_RECOGNIZED == <<"/N","/e"," ","/s","/m","/o","/g"," ","/r","/a","/s","/p","/o","/z","/n","/a","/t","/soft"," ","/p","/o"," ","/f","/o","/t","/o"," ","sym"," ","/P","/o","/p","/r","/o","/b","/u","/j"," ","/d","/r","/u","/g","/o","/e"," ","/f","/o","/t","/o"," ","/i","/l","/i"," ","/p","/o","/d","/p","/i","/sh","/i",".">>

HINT_DEFAULT == <<"/N","/e"," ","/s","/m","/o","/g"," ","/o","/b","/r","/a","/b","/o","/t","/a","/t","/soft"," ","/f","/o","/t","/o"," ","sym">>

HINT_401 == <<"/P","/r","/o","/b","/l","/e","/m","/a"," ","/s"," ","G","R","O","Q","_","A","P","I","_","K","E","Y"," ","(","4","0","1",")",".">>

HINT_429 == <<"G","r","o","q"," ","/o","/g","/r","/a","/n","/i","/ch","/i","/l"," ","/z","/a","/p","/r","/o","/s","/y"," ","(","4","2","9","/","/l","/i","/m","/i","/t",")",".">>

HINT_MODEL == <<"/M","/o","/d","/e","/l","/soft"," ","G","r","o","q"," ","/n","/e"," ","/n","/a","/j","/d","/e","/n","/a","."," ","/P","/r","/o","/v","/e","/r","/soft"," ","G","R","O","Q","_","M","O","D","E","L",".">>

HINT_TIMEOUT == <<"/T","/a","/j","/m","/a","/u","/t"," ","G","r","o","q","."," ","/P","/o","/p","/r","/o","/b","/u","/j"," ","/e","/sch","/yo"," ","/r","/a","/z",".">>

TEXT_CORRECTION_ACCEPTED == <<"/O","/k",","," ","/p","/r","/i","/n","/ya","/l"," ","/u","/t","/o","/ch","/n","/e","/n","/i","/e"," ","sym">>

TEXT_CORRECTION_FAILED == <<"sym","sym"," ","/N","/e"," ","/s","/m","/o","/g"," ","/p","/e","/r","/e","/s","/ch","/i","/t","/a","/t","/soft"," ","/p","/o"," ","/u","/t","/o","/ch","/n","/e","/n","/i","/yu","."," ","/P","/o","/p","/r","/o","/b","/u","/j"," ","/e","/sch","/yo"," ","/r","/a","/z"," ","/p","/o","/z","/zh","/e",".">>

\* the hint analyze_food picks from repr(e).lower()
error_hint(err) ==
    LET low == LowerText(err)
    IN  IF Contains(low, <<"4","0","1">>) \/ Contains(low, <<"u","n","a","u","t","h","o","r","i","z","e","d">>) THEN HINT_401
        ELSE IF Contains(low, <<"4","2","9">>) \/ Contains(low, <<"r","a","t","e">>) \/ Contains(low, <<"q","u","o","t","a">>) THEN HINT_429
        ELSE IF Contains(low, <<"m","o","d","e","l">>) /\ (Contains(low, <<"n","o","t"," ","f","o","u","n","d">>) \/ Contains(low, <<"d","o","e","s"," ","n","o","t"," ","e","x","i","s","t">>)) THEN HINT_MODEL
        ELSE IF Contains(low, <<"t","i","m","e","o","u","t">>) THEN HINT_TIMEOUT
        ELSE HINT_DEFAULT

\* the try block of analyze_food, on what the completion request did
analyze_food(outcome) ==
    IF outcome.kind = "text"
    THEN (IF strip(outcome.text) # << >> THEN strip(outcome.text) ELSE TEXT_NOT_RECOGNIZED)
    ELSE <<"sym", "sym", " ">> \o error_hint(outcome.text)

\* reanalyze_from_text; without a client the request raises inside the try block
reanalyze_from_text(configured, outcome) ==
    IF configured /\ outcome.kind = "text"
    THEN (IF strip(outcome.text) # << >> THEN strip(outcome.text) ELSE TEXT_CORRECTION_ACCEPTED)
    ELSE TEXT_CORRECTION_FAILED

\* the texts sent in place of an analysis when it could not be obtained
APOLOGIES == {TEXT_NOT_CONFIGURED, TEXT_NOT_RECOGNIZED, TEXT_CORRECTION_ACCEPTED, TEXT_CORRECTION_FAILED}
             \cup {<<"sym", "sym", " ">> \o h : h \in {HINT_DEFAULT, HINT_401, HINT_429, HINT_MODEL, HINT_TIMEOUT}}

(***************************************************************************)
(* Handler invocations.  A handler runs from one await to the next without *)
(* interruption; each action below is one such stretch, and pc names the   *)
(* await the handler is suspended at.                                      *)
(***************************************************************************)
NoTask == [kind |-> "none", pc |-> "none", chat |-> 0, user |-> 0, text |-> 0,
           reply_to |-> 0, caption |-> << >>, prof |-> None, ref |-> 0, via |-> "",
           corr |-> None, analysis |-> << >>, low |-> None, high |-> None,
           title |-> << >>, sent |-> 0, val |-> None, name |-> << >>, height |-> 0,
           called |-> None, fx |-> {}, trace |-> << >>, replies |-> << >>, raised |-> FALSE, failure |-> FALSE,
           queue |-> << >>, attempts |-> << >>, seen |-> {}, pend |-> None]

Ids == DOMAIN tasks

Arrived == {i \in Ids : tasks[i].pc # "none"}

Running == {i \in Ids : tasks[i].pc \notin {"none", "done", "raised"}}

\* a new event can be taken up
CanArrive == delivered < MaxEvents /\ Cardinality(Running) < MaxTasks

\* the record of a handler that returned is kept until its slot is taken again
NewId == CHOOSE i \in Ids \ Running : \A j \in Ids \ Running : i <= j

At(i, kind, pc) == i \in Ids /\ tasks[i].kind = kind /\ tasks[i].pc = pc

Set(i, t) == tasks' = [tasks EXCEPT ![i] = t]

\* the dispatcher starts a handler for one more update
Arrive(t) == Set(NewId, t) /\ delivered' = delivered + 1

\* msg.reply(...): the handler's record with the reply added
Reply(t, r) == [t EXCEPT !.replies = Append(@, r)]

\* the handler returns
Done(t) == [t EXCEPT !.pc = "done"]

Sent(chat) == msg_seq' = [msg_seq EXCEPT ![chat] = @ + 1]

(***************************************************************************)
(* answer_questions and day_summary_text.                                  *)
(***************************************************************************)
\* an order in which the standalone patterns come before the combined one
answer_intent_standalone_first(t) ==
    IF AskSearch(ASK_MY_HEIGHT_RE, t) THEN "height"
    ELSE IF AskSearch(ASK_MY_WEIGHT_RE, t) THEN "weight"
    ELSE IF AskSearch(ASK_MY_HW_RE, t) THEN "hw"
    ELSE IF AskSearch(ASK_EATEN_TODAY_RE, t) THEN "eaten"
    ELSE IF AskSearch(ASK_BURNED_TODAY_RE, t) THEN "burned"
    ELSE IF AskSearch(ASK_BALANCE_RE, t) THEN "balance"
    ELSE IF AskSearch(ASK_SUMMARY_RE, t) THEN "summary"
    ELSE ""

\* the first question pattern that matches, in the order answer_questions tests them
answer_intent(t) ==
    IF AskSearch(ASK_MY_HW_RE, t) THEN "hw"
    ELSE IF AskSearch(ASK_MY_HEIGHT_RE, t) THEN "height"
    ELSE IF AskSearch(ASK_MY_WEIGHT_RE, t) THEN "weight"
    ELSE IF AskSearch(ASK_EATEN_TODAY_RE, t) THEN "eaten"
    ELSE IF AskSearch(ASK_BURNED_TODAY_RE, t) THEN "burned"
    ELSE IF AskSearch(ASK_BALANCE_RE, t) THEN "balance"
    ELSE IF AskSearch(ASK_SUMMARY_RE, t) THEN "summary"
    ELSE ""

\* float(prof[2]) if prof else None; a linked profile always holds a number
profile_weight(prof) == IF IsNone(prof) THEN None ELSE Val(prof).weight_kg

\* a sign that marks a zero balance as well
balance_sign_nonnegative(balance) == IF balance >= 0 THEN "+" ELSE ""

\* "+" if balance > 0 else ""
balance_sign(balance) == IF balance > 0 THEN "+" ELSE ""

\* day_summary_text: the numbers of the summary message
day_summary_text(chat_id, user_id) ==
    LET prof   == get_profile(profiles, chat_id, user_id)
        intake == total_intake_today(meals, chat_id, user_id, now)
        nsteps == steps_today(steps, chat_id, user_id, now)
    IN  {<<"summary", intake[2], intake[3], intake[1], nsteps, burned,
           balance_sign(intake[1] - burned), intake[1] - burned>> :
         burned \in estimate_burned_kcal_from_steps(nsteps, profile_weight(prof))}

\* the reply answer_questions sends for an intent, prof being the profile
\* on_text read at its start
answer_questions(intent, chat_id, user_id, prof) ==
    LET intake == total_intake_today(meals, chat_id, user_id, now)
        nsteps == steps_today(steps, chat_id, user_id, now)
        burns  == estimate_burned_kcal_from_steps(nsteps, profile_weight(prof))
    IN  CASE intent = "hw" ->
               IF IsNone(prof) THEN {<<"no_profile">>}
               ELSE {<<"height_weight", Val(prof).height_cm, Val(prof).weight_kg>>}
          [] intent = "height" ->
               IF IsNone(prof) THEN {<<"no_height">>}
               ELSE {<<"height", Val(prof).height_cm>>}
          [] intent = "weight" ->
               {IF ~IsNone(lw) THEN <<"last_weight", Val(lw).weight, Val(lw).dt>>
                ELSE IF ~IsNone(prof) THEN <<"profile_weight", Val(prof).weight_kg>>
                ELSE <<"no_weight">> : lw \in last_weight(weights, chat_id, user_id)}
          [] intent = "eaten" -> {<<"eaten", intake[1], intake[2], intake[3]>>}
          [] intent = "burned" -> {<<"burned", nsteps, b>> : b \in burns}
          [] intent = "balance" ->
               {<<"balance", balance_sign(intake[1] - b), intake[1] - b, intake[1], b>> : b \in burns}
          [] intent = "summary" -> day_summary_text(chat_id, user_id)

(***************************************************************************)
(* on_text.                                                                *)
(***************************************************************************)
\* msg.text of a group message, stripped
\* t = (msg.text or "").strip(), for each text of TEXTS
TEXT_STRIPPED == [k \in DOMAIN TEXTS |-> strip(TEXTS[k])]

TextOf(t) == TEXT_STRIPPED[t.text]

\* extract_correction_text(t) for each text of TEXTS
TEXT_CORRECTION == [k \in DOMAIN TEXTS |-> extract_correction_text(TEXT_STRIPPED[k])]

CorrectionOf(t) == TEXT_CORRECTION[t.text]

\* the question answer_questions finds in each text of TEXTS
TEXT_INTENT == [k \in DOMAIN TEXTS |-> answer_intent(TEXT_STRIPPED[k])]

IntentOf(t) == TEXT_INTENT[t.text]

\* WEIGHT_RE.search(t) and STEPS_RE.search(t) for each text of TEXTS
TEXT_WEIGHT == [k \in DOMAIN TEXTS |-> WEIGHT_RE(TEXT_STRIPPED[k])]

TEXT_STEPS == [k \in DOMAIN TEXTS |-> STEPS_RE(TEXT_STRIPPED[k])]

\* the order in which on_text evaluates its rules
CHAIN == <<"pending", "reply", "intent", "weight", "steps">>

\* a time-to-live of ten hours in place of ten minutes
pending_fresh_hours(created_at, t) == t - created_at <= 60 * TTL

\* datetime.now(TZ) - created_dt <= timedelta(minutes=10)
pending_fresh(created_at, t) == t - created_at <= TTL

\* a weight test without its range
weight_accepted_nonzero(w) == w # 0

\* w and 30.0 <= w <= 300.0, in tenths of a kilogram
weight_accepted(w) == w # 0 /\ MIN_WEIGHT <= w /\ w <= MAX_WEIGHT

\* 300 <= s <= 100000
steps_accepted(s) == MIN_STEPS <= s /\ s <= MAX_STEPS

\* a steps rule that answers a number outside the range with a refusal
steps_rule_rejecting(t) ==
    LET ms == TEXT_STEPS[t.text]
        t1 == [t EXCEPT !.trace = Append(@, "steps")]
    IN  IF ~IsNone(ms) /\ steps_accepted(Val(ms))
        THEN [t1 EXCEPT !.pc = "save_steps", !.val = ms]
        ELSE IF ~IsNone(ms) THEN Done(Reply(t1, <<"steps_refused">>))
        ELSE Done(t1)

\* the steps rule, lines 808-812: the handler goes on to save_steps or returns
steps_rule(t) ==
    LET ms == TEXT_STEPS[t.text]
        t1 == [t EXCEPT !.trace = Append(@, "steps")]
    IN  IF ~IsNone(ms) /\ steps_accepted(Val(ms))
        THEN [t1 EXCEPT !.pc = "save_steps", !.val = ms]
        ELSE Done(t1)

\* the weight rule, lines 796-804, and what follows when it does not fire
weight_rule(t) ==
    LET mw == TEXT_WEIGHT[t.text]
        t1 == [t EXCEPT !.trace = Append(@, "weight")]
    IN  IF ~IsNone(mw) /\ weight_accepted(Val(mw))
        THEN [t1 EXCEPT !.pc = "save_weight", !.val = mw]
        ELSE steps_rule(t1)

\* a weight branch without its return: the steps rule is evaluated as well
after_weight_saved_falls_through(t) == steps_rule(t)

\* line 805: the weight branch returns after its reply
after_weight_saved(t) == Done(t)

\* lines 772-776: the reply-to-bot test, reached when no correction is pending
after_pending(t) ==
    LET corr == CorrectionOf(t)
        t1   == [t EXCEPT !.trace = Append(@, "reply")]
    IN  IF t.reply_to # 0 /\ Truthy(corr)
        THEN [t1 EXCEPT !.pc = "find_meal", !.via = "reply", !.ref = t.reply_to, !.corr = corr]
        ELSE [t1 EXCEPT !.pc = "questions"]

\* a group text message arrives; reply_to is 0 or a message of the bot
RecvText(chat, user, k, reply_to) ==
    /\ CanArrive
    /\ reply_to \in 0..msg_seq[chat]
    /\ Arrive([NoTask EXCEPT !.kind = "text", !.pc = "ensure_chat", !.chat = chat,
                                 !.user = user, !.text = k, !.reply_to = reply_to])
    /\ UNCHANGED <<now, groq_client, store, fsm, msg_seq, buttons>>

TextEnsureChat(i) ==
    /\ At(i, "text", "ensure_chat")
    /\ chats' = ensure_chat(chats, tasks[i].chat)
    /\ Set(i, [tasks[i] EXCEPT !.pc = "get_profile"])
    /\ UNCHANGED <<now, groq_client, delivered, profiles, weights, steps, meals, meal_corrections,
                   pending_fixes, fsm, msg_seq, buttons>>

TextGetProfile(i) ==
    /\ At(i, "text", "get_profile")
    /\ Set(i, [tasks[i] EXCEPT !.pc = "get_pending",
                               !.prof = get_profile(profiles, tasks[i].chat, tasks[i].user)])
    /\ UNCHANGED <<now, groq_client, delivered, store, fsm, msg_seq, buttons>>

\* lines 738-749: read the pending fix, test its age and the correction text
TextGetPending(i) ==
    /\ At(i, "text", "get_pending")
    /\ LET t    == [tasks[i] EXCEPT !.trace = Append(@, "pending")]
           p    == get_pending_fix(pending_fixes, t.chat, t.user)
           corr == CorrectionOf(t)
       IN  IF IsNone(p) THEN Set(i, after_pending(t))
           ELSE IF pending_fresh(Val(p).created_at, now) /\ Truthy(corr)
           THEN Set(i, [t EXCEPT !.pc = "find_meal", !.via = "pending",
                                 !.ref = Val(p).bot_message_id, !.corr = corr,
                                 !.pend = Some(Val(p).created_at)])
           ELSE Set(i, [t EXCEPT !.pc = "clear_stale"])
    /\ UNCHANGED <<now, groq_client, delivered, store, fsm, msg_seq, buttons>>

\* line 769
TextClearStale(i) ==
    /\ At(i, "text", "clear_stale")
    /\ pending_fixes' = clear_pending_fix(pending_fixes, tasks[i].chat, tasks[i].user)
    /\ Set(i, after_pending(tasks[i]))
    /\ UNCHANGED <<now, groq_client, delivered, chats, profiles, weights, steps, meals,
                   meal_corrections, fsm, msg_seq, buttons>>

\* lines 750-753 and 776-777; a pending fix whose meal is gone is cleared and
\* the user is told so (lines 752-753, taken as one step)
TextFindMeal(i) ==
    /\ At(i, "text", "find_meal")
    /\ LET t == tasks[i]
       IN  IF find_meal_by_bot_message(meals, t.chat, t.ref) # {}
           THEN Set(i, [t EXCEPT !.pc = "reanalyze"]) /\ UNCHANGED <<pending_fixes, msg_seq>>
           ELSE IF t.via = "pending"
           THEN /\ pending_fixes' = clear_pending_fix(pending_fixes, t.chat, t.user)
                /\ Set(i, Done(Reply(t, <<"fix_not_found">>)))
                /\ Sent(t.chat)
           ELSE Set(i, [t EXCEPT !.pc = "questions"]) /\ UNCHANGED <<pending_fixes, msg_seq>>
    /\ UNCHANGED <<now, groq_client, delivered, chats, profiles, weights, steps, meals,
                   meal_corrections, fsm, buttons>>

\* lines 758-762 and 781-785: get_goal, then the completion request, which the
\* handler makes without yielding, and the parse of its answer
TextReanalyze(i, outcome) ==
    /\ At(i, "text", "reanalyze")
    /\ LET t        == tasks[i]
           analysis == reanalyze_from_text(groq_client, outcome)
           range    == parse_kcal_range(analysis)
       IN  Set(i, [t EXCEPT !.pc = "log_correction", !.analysis = analysis,
                            !.low = range[1], !.high = range[2],
                            !.title = new_title(Val(t.corr)),
                            !.failure = ~groq_client \/ outcome.kind = "error"])
    /\ UNCHANGED <<now, groq_client, delivered, store, fsm, msg_seq, buttons>>

\* lines 764 and 787
TextLogCorrection(i) ==
    /\ At(i, "text", "log_correction")
    /\ LET t == tasks[i]
       IN  /\ meal_corrections' = log_correction(meal_corrections, t.chat, t.user, t.ref,
                                                 Val(t.corr), Truncate(now))
           /\ Set(i, [t EXCEPT !.pc = "update_meal"])
    /\ UNCHANGED <<now, groq_client, delivered, chats, profiles, weights, steps, meals, pending_fixes,
                   fsm, msg_seq, buttons>>

\* lines 765 and 788-789
TextUpdateMeal(i) ==
    /\ At(i, "text", "update_meal")
    /\ LET t  == tasks[i]
           t1 == [t EXCEPT !.fx = @ \cup {"correction"}]
       IN  /\ meals' = update_meal_by_bot_message(meals, t.chat, t.ref, t.title, t.low, t.high)
           /\ IF t.via = "pending"
              THEN Set(i, [t1 EXCEPT !.pc = "clear_applied"]) /\ UNCHANGED msg_seq
              ELSE Set(i, Done(Reply(t1, <<"correction_applied", t.analysis>>))) /\ Sent(t.chat)
    /\ UNCHANGED <<now, groq_client, delivered, chats, profiles, weights, steps, meal_corrections,
                   pending_fixes, fsm, buttons>>

\* lines 766-768
TextClearApplied(i) ==
    /\ At(i, "text", "clear_applied")
    /\ pending_fixes' = clear_pending_fix(pending_fixes, tasks[i].chat, tasks[i].user)
    /\ Set(i, Done(Reply(tasks[i], <<"correction_applied", tasks[i].analysis>>)))
    /\ Sent(tasks[i].chat)
    /\ UNCHANGED <<now, groq_client, delivered, chats, profiles, weights, steps, meals,
                   meal_corrections, fsm, buttons>>

\* lines 792-811: answer_questions, then the weight and the steps pattern
TextQuestions(i) ==
    /\ At(i, "text", "questions")
    /\ LET t      == [tasks[i] EXCEPT !.trace = Append(@, "intent")]
           intent == IntentOf(t)
       IN  IF intent # ""
           THEN /\ \E r \in answer_questions(intent, t.chat, t.user, t.prof) :
                       Set(i, Done(Reply([t EXCEPT !.fx = @ \cup {"intent"}], r)))
                /\ Sent(t.chat)
           ELSE Set(i, weight_rule(t)) /\ UNCHANGED msg_seq
    /\ UNCHANGED <<now, groq_client, delivered, store, fsm, buttons>>

\* lines 804-805
TextSaveWeight(i) ==
    /\ At(i, "text", "save_weight")
    /\ LET t == tasks[i]
       IN  /\ weights' = save_weight(weights, t.chat, t.user, Val(t.val), Truncate(now))
           /\ Set(i, after_weight_saved(
                        Reply([t EXCEPT !.fx = @ \cup {"weight"}], <<"weight_saved", Val(t.val)>>)))
           /\ Sent(t.chat)
    /\ UNCHANGED <<now, groq_client, delivered, chats, profiles, steps, meals, meal_corrections,
                   pending_fixes, fsm, buttons>>

\* lines 812-816
TextSaveSteps(i) ==
    /\ At(i, "text", "save_steps")
    /\ LET t  == tasks[i]
           t1 == Reply([t EXCEPT !.fx = @ \cup {"steps"}], <<"steps_saved", Val(t.val)>>)
       IN  /\ steps' = save_steps(steps, t.chat, t.user, Val(t.val), Truncate(now))
           /\ IF HourOf(now) >= EVENING_HOUR
              THEN Set(i, [t1 EXCEPT !.pc = "summary"])
              ELSE Set(i, Done(t1))
           /\ Sent(t.chat)
    /\ UNCHANGED <<now, groq_client, delivered, chats, profiles, weights, meals, meal_corrections,
                   pending_fixes, fsm, buttons>>

\* lines 817-818
TextSummary(i) ==
    /\ At(i, "text", "summary")
    /\ \E r \in day_summary_text(tasks[i].chat, tasks[i].user) :
           Set(i, Done(Reply(tasks[i], r)))
    /\ Sent(tasks[i].chat)
    /\ UNCHANGED <<now, groq_client, delivered, store, fsm, buttons>>

(***************************************************************************)
(* on_food_photo.                                                          *)
(***************************************************************************)
\* correction_keyboard(bot_message_id) attached to message message_id: the
\* button's callback data is "fix:<bot_message_id>"
correction_keyboard(chat, message_id, bot_message_id) ==
    [chat |-> chat, message_id |-> message_id, data |-> bot_message_id]

\* an exception leaves the handler for the dispatcher
Raised(t) == [t EXCEPT !.pc = "raised", !.raised = TRUE]

\* lines 837-841, on the analysis text
Analysed(t, analysis) ==
    LET range == parse_kcal_range(analysis)
    IN  [t EXCEPT !.pc = "reply_sent", !.analysis = analysis, !.low = range[1],
                  !.high = range[2], !.title = meal_title(t.caption, analysis)]

\* a photo arrives in a group
RecvPhoto(chat, user, caption) ==
    /\ CanArrive
    /\ Arrive([NoTask EXCEPT !.kind = "photo", !.pc = "ensure_chat", !.chat = chat,
                                 !.user = user, !.caption = caption])
    /\ UNCHANGED <<now, groq_client, store, fsm, msg_seq, buttons>>

PhotoEnsureChat(i) ==
    /\ At(i, "photo", "ensure_chat")
    /\ chats' = ensure_chat(chats, tasks[i].chat)
    /\ Set(i, [tasks[i] EXCEPT !.pc = "get_profile"])
    /\ UNCHANGED <<now, groq_client, delivered, profiles, weights, steps, meals, meal_corrections,
                   pending_fixes, fsm, msg_seq, buttons>>

PhotoGetProfile(i) ==
    /\ At(i, "photo", "get_profile")
    /\ Set(i, [tasks[i] EXCEPT !.pc = "get_goal",
                               !.prof = get_profile(profiles, tasks[i].chat, tasks[i].user)])
    /\ UNCHANGED <<now, groq_client, delivered, store, fsm, msg_seq, buttons>>

\* lines 834-835 and 412-415: get_goal, then analyze_food up to bot.get_file
PhotoGetGoal(i) ==
    /\ At(i, "photo", "get_goal")
    /\ IF groq_client
       THEN Set(i, [tasks[i] EXCEPT !.pc = "get_file"])
       ELSE Set(i, Analysed([tasks[i] EXCEPT !.failure = TRUE], TEXT_NOT_CONFIGURED))
    /\ UNCHANGED <<now, groq_client, delivered, store, fsm, msg_seq, buttons>>

\* line 415: bot.get_file, outside the try block
PhotoGetFile(i, ok) ==
    /\ At(i, "photo", "get_file")
    /\ IF ok THEN Set(i, [tasks[i] EXCEPT !.pc = "download"])
       ELSE Set(i, Raised([tasks[i] EXCEPT !.failure = TRUE]))
    /\ UNCHANGED <<now, groq_client, delivered, store, fsm, msg_seq, buttons>>

\* line 416: bot.download_file, outside the try block
PhotoDownload(i, ok) ==
    /\ At(i, "photo", "download")
    /\ IF ok THEN Set(i, [tasks[i] EXCEPT !.pc = "groq"])
       ELSE Set(i, Raised([tasks[i] EXCEPT !.failure = TRUE]))
    /\ UNCHANGED <<now, groq_client, delivered, store, fsm, msg_seq, buttons>>

\* lines 450-471 and 837-843: the completion request, made without yielding
PhotoGroq(i, outcome) ==
    /\ At(i, "photo", "groq")
    /\ Set(i, Analysed([tasks[i] EXCEPT !.called = Some(now),
                                        !.failure = (outcome.kind = "error")],
                       analyze_food(outcome)))
    /\ UNCHANGED <<now, groq_client, delivered, store, fsm, msg_seq, buttons>>

\* line 845: the analysis is sent with correction_keyboard(0)
PhotoReplySent(i) ==
    /\ At(i, "photo", "reply_sent")
    /\ LET t  == tasks[i]
           id == msg_seq[t.chat] + 1
       IN  /\ buttons' = buttons \cup {correction_keyboard(t.chat, id, 0)}
           /\ Set(i, [Reply(t, <<"analysis", t.analysis>>) EXCEPT !.pc = "save_meal", !.sent = id])
           /\ Sent(t.chat)
    /\ UNCHANGED <<now, groq_client, delivered, store, fsm>>

\* line 846
PhotoSaveMeal(i) ==
    /\ At(i, "photo", "save_meal")
    /\ LET t == tasks[i]
       IN  /\ meals' = save_meal(meals, t.chat, t.user, t.title, t.low, t.high, t.sent,
                                 Truncate(now))
           /\ Set(i, [t EXCEPT !.pc = "total"])
    /\ UNCHANGED <<now, groq_client, delivered, chats, profiles, weights, steps, meal_corrections,
                   pending_fixes, fsm, msg_seq, buttons>>

\* lines 849-851
PhotoTotal(i) ==
    /\ At(i, "photo", "total")
    /\ LET t      == tasks[i]
           intake == total_intake_today(meals, t.chat, t.user, now)
       IN  Set(i, [Reply(t, <<"today", intake[1], intake[2]>>) EXCEPT !.pc = "edit_markup"])
    /\ Sent(tasks[i].chat)
    /\ UNCHANGED <<now, groq_client, delivered, store, fsm, buttons>>

\* lines 853-860: the keyboard is replaced by correction_keyboard(sent.message_id);
\* a failure of the edit is swallowed
PhotoEditMarkup(i, ok) ==
    /\ At(i, "photo", "edit_markup")
    /\ LET t == tasks[i]
       IN  /\ buttons' = IF ok
                         THEN {b \in buttons : ~(b.chat = t.chat /\ b.message_id = t.sent)}
                              \cup {correction_keyboard(t.chat, t.sent, t.sent)}
                         ELSE buttons
           /\ Set(i, Done(t))
    /\ UNCHANGED <<now, groq_client, delivered, store, fsm, msg_seq>>

(***************************************************************************)
(* cb_fix.                                                                 *)
(***************************************************************************)
\* a user presses the button b of a message of the bot
PressFix(user, b) ==
    /\ CanArrive
    /\ b \in buttons
    /\ Arrive([NoTask EXCEPT !.kind = "fix", !.pc = "find_meal", !.chat = b.chat,
                                 !.user = user, !.ref = b.data, !.reply_to = b.message_id])
    /\ UNCHANGED <<now, groq_client, store, fsm, msg_seq, buttons>>

\* lines 650-652
FixFindMeal(i) ==
    /\ At(i, "fix", "find_meal")
    /\ IF find_meal_by_bot_message(meals, tasks[i].chat, tasks[i].ref) # {}
       THEN Set(i, [tasks[i] EXCEPT !.pc = "set_pending"])
       ELSE Set(i, Done(Reply(tasks[i], <<"alert_not_found">>)))
    /\ UNCHANGED <<now, groq_client, delivered, store, fsm, msg_seq, buttons>>

\* lines 654-659
FixSetPending(i) ==
    /\ At(i, "fix", "set_pending")
    /\ LET t == tasks[i]
       IN  /\ pending_fixes' = set_pending_fix(pending_fixes, t.chat, t.user, t.ref, Truncate(now))
           /\ Set(i, Done(Reply(t, <<"fix_prompt">>)))
           /\ Sent(t.chat)
    /\ UNCHANGED <<now, groq_client, delivered, chats, profiles, weights, steps, meals,
                   meal_corrections, fsm, buttons>>

(***************************************************************************)
(* The clock.                                                              *)
(***************************************************************************)
MaxNow == START + TTL + MaxExtra

\* time passes: one tick (at most MaxExtra in a row), or a whole time-to-live
Tick(d) ==
    /\ now + d <= MaxNow
    /\ d < TTL => (now - START) % TTL < MaxExtra
    /\ now' = now + d
    /\ UNCHANGED <<groq_client, delivered, store, fsm, msg_seq, buttons, tasks>>

(***************************************************************************)
(* The private /profile dialogue and /linkprofile.                         *)
(***************************************************************************)
\* how many private messages and /linkprofile commands a run receives
MaxDialogue == 5

\* the texts of private messages the model draws from
PRIVATE_TEXTS == <<
    <<"D","e","n">>,
    [i \in 1..31 |-> "x"],
    <<"1","8","8">>,
    <<"8","2",",","4">>,
    <<"n","a","n">>,
    <<"5","0","0">> >>

\* str.replace(",", ".")
comma_to_dot(t) == [i \in 1..Len(t) |-> IF t[i] = "," THEN "." ELSE t[i]]

\* str.isdigit()
isdigit(t) == t # << >> /\ \A i \in 1..Len(t) : t[i] \in DIGITS

\* float(raw) for the texts of the model: digits with at most one fractional
\* digit, nan and inf; None is ValueError.  A float is [k, v]: a number of v
\* tenths, a NaN, or an infinity of sign v.
float(raw) ==
    LET n == DigitRun(raw, 1)
        low == LowerText(raw)
    IN  IF low = <<"n", "a", "n">> THEN Some([k |-> "nan", v |-> 0])
        ELSE IF low = <<"i", "n", "f">> THEN Some([k |-> "inf", v |-> 1])
        ELSE IF n >= 1 /\ n = Len(raw) THEN Some([k |-> "num", v |-> 10 * ToInt(raw, 1, n)])
        ELSE IF n >= 1 /\ Len(raw) = n + 2 /\ raw[n + 1] = "." /\ IsDigit(raw, n + 2)
             THEN Some([k |-> "num", v |-> 10 * ToInt(raw, 1, n) + DigitVal(raw[n + 2])])
        ELSE None

\* w < bound and w > bound for a float w and a number of tenths; every
\* comparison with NaN is false
FloatLt(w, bound) == (w.k = "num" /\ w.v < bound) \/ (w.k = "inf" /\ w.v < 0)

FloatGt(w, bound) == (w.k = "num" /\ w.v > bound) \/ (w.k = "inf" /\ w.v > 0)

\* line 608: if w < 30 or w > 300, the answer is refused
profile_weight_refused(w) == FloatLt(w, MIN_WEIGHT) \/ FloatGt(w, MAX_WEIGHT)

\* line 595
profile_height_refused(h) == h < MIN_HEIGHT \/ h > MAX_HEIGHT

\* the REAL column of SQLite: a NaN is stored as NULL
sql_real(w) == IF w.k = "nan" THEN None ELSE Some(w.v)

NoDialogue == [state |-> "none", name |-> None, height |-> None]

CanArrivePrivate == delivered < MaxDialogue /\ Cardinality(Running) < MaxTasks

\* a private event handled without suspension, as it is recorded
Handled(kind, user, reply) ==
    [NoTask EXCEPT !.kind = kind, !.pc = "done", !.user = user, !.replies = <<reply>>]

\* cmd_profile in the private chat: set_state(ProfileFlow.name)
CmdProfile(user) ==
    /\ CanArrivePrivate
    /\ fsm' = [fsm EXCEPT ![user].state = "name"]
    /\ Arrive(Handled("profile", user, <<"ask_name">>))
    /\ UNCHANGED <<now, groq_client, store, msg_seq, buttons>>

\* prof_name
ProfName(user, k) ==
    /\ CanArrivePrivate
    /\ fsm[user].state = "name"
    /\ LET name == strip(PRIVATE_TEXTS[k])
       IN  IF name = << >> \/ Len(name) > MAX_NAME
           THEN fsm' = fsm /\ Arrive(Handled("name", user, <<"name_refused">>))
           ELSE /\ fsm' = [fsm EXCEPT ![user].name = Some(name), ![user].state = "height"]
                /\ Arrive(Handled("name", user, <<"ask_height">>))
    /\ UNCHANGED <<now, groq_client, store, msg_seq, buttons>>

\* prof_height
ProfHeight(user, k) ==
    /\ CanArrivePrivate
    /\ fsm[user].state = "height"
    /\ LET raw == strip(PRIVATE_TEXTS[k])
       IN  IF ~isdigit(raw)
           THEN fsm' = fsm /\ Arrive(Handled("height", user, <<"height_not_digits">>))
           ELSE IF profile_height_refused(ToInt(raw, 1, Len(raw)))
           THEN fsm' = fsm /\ Arrive(Handled("height", user, <<"height_refused">>))
           ELSE /\ fsm' = [fsm EXCEPT ![user].height = Some(ToInt(raw, 1, Len(raw))),
                                      ![user].state = "weight"]
                /\ Arrive(Handled("height", user, <<"ask_weight">>))
    /\ UNCHANGED <<now, groq_client, store, msg_seq, buttons>>

\* prof_weight, lines 603-614: up to the await of upsert_profile
ProfWeight(user, k) ==
    /\ CanArrivePrivate
    /\ fsm[user].state = "weight"
    /\ LET w == float(comma_to_dot(strip(PRIVATE_TEXTS[k])))
       IN  IF IsNone(w)
           THEN Arrive(Handled("weight", user, <<"weight_not_number">>))
           ELSE IF profile_weight_refused(Val(w))
           THEN Arrive(Handled("weight", user, <<"weight_refused">>))
           ELSE Arrive([NoTask EXCEPT !.kind = "weight", !.pc = "upsert", !.user = user,
                                          !.name = Val(fsm[user].name),
                                          !.height = Val(fsm[user].height),
                                          !.val = sql_real(Val(w))])
    /\ UNCHANGED <<now, groq_client, store, fsm, msg_seq, buttons>>

\* prof_weight, lines 616-618: the write, state.clear() and the reply
ProfWeightUpsert(i) ==
    /\ At(i, "weight", "upsert")
    /\ LET t == tasks[i]
       IN  /\ profiles' = upsert_profile(profiles, GLOBAL_SCOPE, t.user, t.name, t.height,
                                         t.val, Truncate(now))
           /\ fsm' = [fsm EXCEPT ![t.user] = NoDialogue]
           /\ Set(i, Done(Reply(t, <<"profile_saved">>)))
    /\ UNCHANGED <<now, groq_client, delivered, chats, weights, steps, meals, meal_corrections,
                   pending_fixes, msg_seq, buttons>>

\* cmd_linkprofile in a group
CmdLinkprofile(chat, user) ==
    /\ CanArrivePrivate
    /\ Arrive([NoTask EXCEPT !.kind = "link", !.pc = "ensure_chat", !.chat = chat,
                                 !.user = user])
    /\ UNCHANGED <<now, groq_client, store, fsm, msg_seq, buttons>>

LinkEnsureChat(i) ==
    /\ At(i, "link", "ensure_chat")
    /\ chats' = ensure_chat(chats, tasks[i].chat)
    /\ Set(i, [tasks[i] EXCEPT !.pc = "select"])
    /\ UNCHANGED <<now, groq_client, delivered, profiles, weights, steps, meals, meal_corrections,
                   pending_fixes, fsm, msg_seq, buttons>>

\* lines 627-636: the global row is read; float(w) raises on a NULL weight
LinkSelect(i) ==
    /\ At(i, "link", "select")
    /\ LET t   == tasks[i]
           row == get_profile(profiles, GLOBAL_SCOPE, t.user)
       IN  IF IsNone(row)
           THEN Set(i, Done(Reply(t, <<"fill_profile_first">>))) /\ Sent(t.chat)
           ELSE IF IsNone(Val(row).weight_kg)
           THEN Set(i, Raised(t)) /\ UNCHANGED msg_seq
           ELSE /\ Set(i, [t EXCEPT !.pc = "upsert", !.name = Val(row).name,
                                    !.height = Val(row).height_cm, !.val = Val(row).weight_kg])
                /\ UNCHANGED msg_seq
    /\ UNCHANGED <<now, groq_client, delivered, store, fsm, buttons>>

\* lines 636-637
LinkUpsert(i) ==
    /\ At(i, "link", "upsert")
    /\ LET t == tasks[i]
       IN  /\ profiles' = upsert_profile(profiles, t.chat, t.user, t.name, t.height, t.val,
                                         Truncate(now))
           /\ Set(i, Done(Reply(t, <<"profile_linked">>)))
           /\ Sent(t.chat)
    /\ UNCHANGED <<now, groq_client, delivered, chats, weights, steps, meals, meal_corrections,
                   pending_fixes, fsm, buttons>>

(***************************************************************************)
(* /bind, /unbind and the scheduled reminders.                             *)
(***************************************************************************)
\* reminder firings and group commands taken up in the reminder specification
MaxReminders == 3

CanArriveReminder == delivered < MaxReminders /\ Cardinality(Running) < MaxTasks

\* the orders in which SELECT without ORDER BY can return the chat ids S
Orders(S) ==
    {q \in [1..Cardinality(S) -> S] : \A a, b \in 1..Cardinality(S) : q[a] = q[b] => a = b}

\* cmd_bind (bound = 1) and cmd_unbind (bound = 0) in a group
CmdBound(chat, bound) ==
    /\ CanArriveReminder
    /\ Arrive([NoTask EXCEPT !.kind = IF bound = 1 THEN "bind" ELSE "unbind",
                             !.pc = "ensure_chat", !.chat = chat, !.user = 1])
    /\ UNCHANGED <<now, groq_client, store, fsm, msg_seq, buttons>>

\* lines 546 and 554
BoundEnsureChat(i) ==
    /\ \E k \in {"bind", "unbind"} : At(i, k, "ensure_chat")
    /\ chats' = ensure_chat(chats, tasks[i].chat)
    /\ Set(i, [tasks[i] EXCEPT !.pc = "set_bound"])
    /\ UNCHANGED <<now, groq_client, delivered, profiles, weights, steps, meals,
                   meal_corrections, pending_fixes, fsm, msg_seq, buttons>>

\* lines 547 and 555
BoundSetBound(i) ==
    /\ \E k \in {"bind", "unbind"} : At(i, k, "set_bound")
    /\ chats' = set_bound(chats, tasks[i].chat, IF tasks[i].kind = "bind" THEN 1 ELSE 0)
    /\ Set(i, [tasks[i] EXCEPT !.pc = "reply"])
    /\ UNCHANGED <<now, groq_client, delivered, profiles, weights, steps, meals,
                   meal_corrections, pending_fixes, fsm, msg_seq, buttons>>

\* lines 548 and 556
BoundReply(i) ==
    /\ \E k \in {"bind", "unbind"} : At(i, k, "reply")
    /\ Set(i, Done(Reply(tasks[i], IF tasks[i].kind = "bind" THEN <<"reminders_on">>
                                   ELSE <<"reminders_off">>)))
    /\ Sent(tasks[i].chat)
    /\ UNCHANGED <<now, groq_client, delivered, store, fsm, buttons>>

\* the scheduler starts one of its three jobs, each of which is send_to_bound
ReminderFire ==
    /\ CanArriveReminder
    /\ Arrive([NoTask EXCEPT !.kind = "reminder", !.pc = "bound_chats"])
    /\ UNCHANGED <<now, groq_client, store, fsm, msg_seq, buttons>>

\* line 867: the bound chats are read once, before the first send
ReminderBoundChats(i) ==
    /\ At(i, "reminder", "bound_chats")
    /\ \E q \in Orders(bound_chats(chats)) :
          Set(i, [tasks[i] EXCEPT !.pc = IF q = << >> THEN "done" ELSE "send",
                                  !.queue = q, !.seen = chats])
    /\ UNCHANGED <<now, groq_client, delivered, store, fsm, msg_seq, buttons>>

\* a loop body that lets the failure of a send end the loop
send_to_bound_aborting(t, ok) ==
    LET rest == IF ok THEN Tail(t.queue) ELSE << >>
    IN  [t EXCEPT !.queue = rest,
                  !.attempts = Append(@, [chat |-> Head(t.queue), ok |-> ok]),
                  !.pc = IF rest = << >> THEN "done" ELSE "send"]

\* lines 868-871: one pass of the loop; the exception of a send is swallowed
send_to_bound(t, ok) ==
    [t EXCEPT !.queue = Tail(@),
              !.attempts = Append(@, [chat |-> Head(t.queue), ok |-> ok]),
              !.pc = IF Tail(t.queue) = << >> THEN "done" ELSE "send"]

\* line 869: bot.send_message to the next chat succeeds or fails
ReminderSend(i, ok) ==
    /\ At(i, "reminder", "send")
    /\ Set(i, send_to_bound(tasks[i], ok))
    /\ msg_seq' = IF ok THEN [msg_seq EXCEPT ![Head(tasks[i].queue)] = @ + 1] ELSE msg_seq
    /\ UNCHANGED <<now, groq_client, delivered, store, fsm, buttons>>

(***************************************************************************)
(* Specifications.                                                         *)
(***************************************************************************)
\* a profile a user completed before the run starts
EARLIER_PROFILE == [chat_id |-> GLOBAL_SCOPE, user_id |-> 1, name |-> <<"D","e","n">>,
                    height_cm |-> 188, weight_kg |-> Some(824), updated_at |-> 0]

\* a meal recorded before the run starts: user 1 sent a photo with a caption to
\* chat 100, the bot answered with messages 1 (the analysis) and 2 (the total)
EARLIER_MEAL == [chat_id |-> 100, user_id |-> 1, dt |-> Truncate(START), title |-> <<"/p","/l","/o","/v">>,
                 kcal_low |-> Some(650), kcal_high |-> Some(850), bot_message_id |-> 1]

\* the states a run starts in: 0 an empty database; 1 after the earlier meal;
\* 2 after user 1 then pressed the button of message 1 (message 3 is the prompt)
Scenario(n) ==
    /\ now = START
    /\ chats = IF n = 0 THEN {} ELSE ensure_chat({}, 100)
    /\ weights = << >>
    /\ steps = << >>
    /\ meals = IF n = 0 THEN << >> ELSE <<EARLIER_MEAL>>
    /\ meal_corrections = << >>
    /\ pending_fixes = IF n = 2 THEN set_pending_fix({}, 100, 1, 1, Truncate(START)) ELSE {}
    /\ fsm = [u \in Users |-> NoDialogue]
    /\ msg_seq = [c \in Chats |-> IF c = 100 THEN (IF n = 0 THEN 0 ELSE n + 1) ELSE 0]
    /\ buttons = IF n = 0 THEN {} ELSE {correction_keyboard(100, 1, 1)}
    /\ delivered = 0
    /\ tasks = [i \in 1..MaxTasks |-> NoTask]

\* a suspended on_text goes on; the completion request does one of outcomes
StepText(i, outcomes) ==
    \/ TextEnsureChat(i)
    \/ TextGetProfile(i)
    \/ TextGetPending(i)
    \/ TextClearStale(i)
    \/ TextFindMeal(i)
    \/ \E o \in outcomes : TextReanalyze(i, o)
    \/ TextLogCorrection(i)
    \/ TextUpdateMeal(i)
    \/ TextClearApplied(i)
    \/ TextQuestions(i)
    \/ TextSaveWeight(i)
    \/ TextSaveSteps(i)
    \/ TextSummary(i)

\* a suspended on_food_photo goes on
StepPhoto(i, outcomes) ==
    \/ PhotoEnsureChat(i)
    \/ PhotoGetProfile(i)
    \/ PhotoGetGoal(i)
    \/ \E ok \in BOOLEAN : PhotoGetFile(i, ok)
    \/ \E ok \in BOOLEAN : PhotoDownload(i, ok)
    \/ \E o \in outcomes : PhotoGroq(i, o)
    \/ PhotoReplySent(i)
    \/ PhotoSaveMeal(i)
    \/ PhotoTotal(i)
    \/ \E ok \in BOOLEAN : PhotoEditMarkup(i, ok)

\* a suspended cb_fix goes on
StepFix(i) ==
    \/ FixFindMeal(i)
    \/ FixSetPending(i)

\* the texts the group specification draws from: a weight, a number that is
\* a step count but no weight, a question, a text too long for a correction
GROUP_TEXTS == {1, 4, 6, 8}

\* the answers it draws from: a range, an inverted range, nothing, a timeout
GROUP_OUTCOMES == {o \in GROQ_OUTCOMES :
                      \/ o.kind = "text" /\ (o.text = << >> \/ ~IsNone(CAL_RANGE_RE(o.text)))
                      \/ o.kind = "error" /\ error_hint(o.text) = HINT_TIMEOUT}

\* the handlers run one after another
Idle == Running = {}

\* the group chats, one update at a time: photos, texts, the correction button
Init ==
    /\ \E n \in 0..1 : Scenario(n)
    /\ groq_client = TRUE
    /\ profiles = {}

Next ==
    \/ Tick(TTL)
    \/ Idle /\ \E c \in Chats, u \in Users, k \in GROUP_TEXTS, r \in 0..(2 * MaxEvents + 3) : RecvText(c, u, k, r)
    \/ Idle /\ \E c \in Chats, u \in Users, cap \in CAPTIONS : RecvPhoto(c, u, cap)
    \/ Idle /\ \E u \in Users, b \in buttons : PressFix(u, b)
    \/ \E i \in 1..MaxTasks : StepText(i, GROUP_OUTCOMES)
    \/ \E i \in 1..MaxTasks : StepPhoto(i, GROUP_OUTCOMES)
    \/ \E i \in 1..MaxTasks : StepFix(i)

Spec == Init /\ [][Next]_vars

\* the texts the chain specification draws from: the numbers, a question, a
\* prefixed correction, a text too long for a correction
CHAIN_TEXTS == 1..9

\* one user's text messages in one chat, one at a time, over the numbers, a
\* question and the corrections of TEXTS
InitText ==
    /\ \E n \in 0..2 : Scenario(n)
    /\ groq_client \in BOOLEAN
    /\ profiles = {}

NextText ==
    \/ \E d \in {1, TTL} : Tick(d)
    \/ Idle /\ \E k \in CHAIN_TEXTS, r \in 0..(2 * MaxEvents + 3) : RecvText(100, 1, k, r)
    \/ Idle /\ \E b \in buttons : PressFix(1, b)
    \/ \E i \in 1..MaxTasks : StepText(i, GROQ_OUTCOMES)
    \/ \E i \in 1..MaxTasks : StepFix(i)

SpecText == InitText /\ [][NextText]_vars

\* one user's updates in one chat, handled concurrently
InitRace ==
    /\ \E n \in {0, 2} : Scenario(n)
    /\ groq_client = TRUE
    /\ profiles = {}

NextRace ==
    \/ Tick(TTL)
    \/ \E k \in {3, 4, 8}, r \in 0..(2 * MaxEvents + 3) : RecvText(100, 1, k, r)
    \/ RecvPhoto(100, 1, << >>)
    \/ \E b \in buttons : PressFix(1, b)
    \/ \E i \in 1..MaxTasks : StepText(i, GROUP_OUTCOMES)
    \/ \E i \in 1..MaxTasks : StepPhoto(i, GROUP_OUTCOMES)
    \/ \E i \in 1..MaxTasks : StepFix(i)

SpecRace == InitRace /\ [][NextRace]_vars

\* the private dialogue and /linkprofile
InitProfile ==
    /\ Scenario(0)
    /\ groq_client = TRUE
    /\ profiles \in {{}, {EARLIER_PROFILE}}

NextProfile ==
    \/ \E d \in {1, TTL} : Tick(d)
    \/ \E u \in Users : CmdProfile(u)
    \/ \E u \in Users, k \in 1..Len(PRIVATE_TEXTS) : ProfName(u, k)
    \/ \E u \in Users, k \in 1..Len(PRIVATE_TEXTS) : ProfHeight(u, k)
    \/ \E u \in Users, k \in 1..Len(PRIVATE_TEXTS) : ProfWeight(u, k)
    \/ \E i \in 1..MaxTasks : ProfWeightUpsert(i)
    \/ \E c \in Chats, u \in Users : CmdLinkprofile(c, u)
    \/ \E i \in 1..MaxTasks : LinkEnsureChat(i)
    \/ \E i \in 1..MaxTasks : LinkSelect(i)
    \/ \E i \in 1..MaxTasks : LinkUpsert(i)

SpecProfile == InitProfile /\ [][NextProfile]_vars

\* the profile user 1 linked to chat 100, with a weight of w tenths of a kilogram
LINKED_PROFILE(w) == [chat_id |-> 100, user_id |-> 1, name |-> <<"D","e","n">>,
                      height_cm |-> 188, weight_kg |-> Some(w), updated_at |-> 0]

\* the profile weights and the step counts of the day the questions are asked over
WEIGHT_SAMPLES == {300, 325, 700, 1400, 3000}

STEP_SAMPLES == {350, 5000, 10000, 100000}

\* a diary the photos of two days left: of user 1 in chat 100 a meal of the
\* day before, and today a meal with a range, one without, and one whose
\* bounds have an odd sum; today's meals of user 2 and of chat 200
DIARY_MEALS == <<
    [chat_id |-> 100, user_id |-> 1, dt |-> Truncate(START) - TicksPerDay, title |-> <<"/p","/l","/o","/v">>,
     kcal_low |-> Some(400), kcal_high |-> Some(600), bot_message_id |-> 1],
    [chat_id |-> 100, user_id |-> 1, dt |-> Truncate(START), title |-> <<"/b","/o","/r","/sch">>,
     kcal_low |-> Some(650), kcal_high |-> Some(850), bot_message_id |-> 3],
    [chat_id |-> 100, user_id |-> 1, dt |-> Truncate(START), title |-> DEFAULT_TITLE,
     kcal_low |-> None, kcal_high |-> None, bot_message_id |-> 5],
    [chat_id |-> 100, user_id |-> 1, dt |-> Truncate(START), title |-> <<"/s","/u","/p">>,
     kcal_low |-> Some(500), kcal_high |-> Some(555), bot_message_id |-> 7],
    [chat_id |-> 100, user_id |-> 2, dt |-> Truncate(START), title |-> <<"/s","/u","/p">>,
     kcal_low |-> Some(300), kcal_high |-> Some(400), bot_message_id |-> 9],
    [chat_id |-> 200, user_id |-> 1, dt |-> Truncate(START), title |-> <<"/s","/u","/p">>,
     kcal_low |-> Some(100), kcal_high |-> Some(200), bot_message_id |-> 1] >>

\* the state the earlier photos (ms) and step messages (ss) of the diary left
Diary(ms, ss) ==
    /\ now = START
    /\ chats = {[chat_id |-> c, bound |-> 0, goal |-> "maintain"] :
                   c \in {ms[k].chat_id : k \in 1..Len(ms)} \cup {ss[k].chat_id : k \in 1..Len(ss)}}
    /\ weights = << >>
    /\ steps = ss
    /\ meals = ms
    /\ meal_corrections = << >>
    /\ pending_fixes = {}
    /\ fsm = [u \in Users |-> NoDialogue]
    /\ msg_seq = [c \in Chats |->
                     2 * Cardinality({k \in 1..Len(ms) : ms[k].chat_id = c})
                     + Cardinality({k \in 1..Len(ss) : ss[k].chat_id = c})]
    /\ buttons = {correction_keyboard(ms[k].chat_id, ms[k].bot_message_id, ms[k].bot_message_id) :
                     k \in 1..Len(ms)}
    /\ delivered = 0
    /\ tasks = [i \in 1..MaxTasks |-> NoTask]

\* the texts the questions specification draws from: a weight, a step count,
\* a text too long for a correction, the questions, a correction by negation,
\* a prefixed correction longer than a title
ASK_TEXTS == {1, 2, 8} \cup (10..17)

\* one user's questions in one chat, one message at a time, over a diary: after
\* a correction was asked for, or with some of meals, steps and a linked profile
InitAsk ==
    /\ groq_client = TRUE
    /\ \/ Scenario(2) /\ profiles = {}
       \/ /\ \E ms \in {<< >>, DIARY_MEALS} :
                \E ss \in {<< >>} \cup {<<[chat_id |-> 100, user_id |-> 1, dt |-> Truncate(START), steps |-> s]>> :
                                           s \in STEP_SAMPLES} :
                    Diary(ms, ss)
          /\ profiles \in {{}} \cup {{LINKED_PROFILE(w)} : w \in WEIGHT_SAMPLES}

NextAsk ==
    \/ Tick(TTL)
    \/ Idle /\ \E k \in ASK_TEXTS : RecvText(100, 1, k, 0)
    \/ \E i \in 1..MaxTasks : StepText(i, GROUP_OUTCOMES)

SpecAsk == InitAsk /\ [][NextAsk]_vars

\* the chats tables the commands can have left behind
BOUND_TABLES ==
    {t \in SUBSET [chat_id : Chats, bound : {0, 1}, goal : {"maintain"}] :
        \A a, b \in t : a.chat_id = b.chat_id => a = b}

\* the reminders next to /bind and /unbind, interleaved
InitReminder ==
    /\ now = START
    /\ groq_client = TRUE
    /\ chats \in BOUND_TABLES
    /\ profiles = {}
    /\ weights = << >>
    /\ steps = << >>
    /\ meals = << >>
    /\ meal_corrections = << >>
    /\ pending_fixes = {}
    /\ fsm = [u \in Users |-> NoDialogue]
    /\ msg_seq = [c \in Chats |-> 0]
    /\ buttons = {}
    /\ delivered = 0
    /\ tasks = [i \in 1..MaxTasks |-> NoTask]

NextReminder ==
    \/ \E c \in Chats, b \in {0, 1} : CmdBound(c, b)
    \/ \E i \in 1..MaxTasks : BoundEnsureChat(i)
    \/ \E i \in 1..MaxTasks : BoundSetBound(i)
    \/ \E i \in 1..MaxTasks : BoundReply(i)
    \/ ReminderFire
    \/ \E i \in 1..MaxTasks : ReminderBoundChats(i)
    \/ \E i \in 1..MaxTasks, ok \in BOOLEAN : ReminderSend(i, ok)

SpecReminder == InitReminder /\ [][NextReminder]_vars

(***************************************************************************)
(* The properties.                                                         *)
(***************************************************************************)
\* what a rule of the chain produces when it fires
RuleEffect(rule) == IF rule \in {"pending", "reply"} THEN "correction" ELSE rule

\* C1: on_text evaluates its rules in the order pending, reply, intent, weight,
\* steps and stops at the first that fires: the rules a message went through
\* are a prefix of the chain, it produced at most one of {correction, intent
\* answer, weight row, steps row}, namely that of the last rule it reached, a
\* message that reached the end without firing sent nothing, and the store
\* never holds more rows of these kinds than messages were received
C1_FirstMatchingRuleOnly ==
    /\ \A i \in Ids : tasks[i].kind = "text" =>
          LET t == tasks[i]
          IN  /\ Len(t.trace) <= Len(CHAIN)
              /\ t.trace = SubSeq(CHAIN, 1, Len(t.trace))
              /\ Cardinality(t.fx) <= 1
              /\ t.fx # {} => t.fx = {RuleEffect(t.trace[Len(t.trace)])}
              /\ ~({"weight", "steps"} \subseteq t.fx)
              /\ (t.pc = "done" /\ t.fx = {}) => (t.trace = CHAIN /\ t.replies = << >>)
    /\ Len(weights) + Len(steps) + Len(meal_corrections) <= delivered

\* C1: the text "300" matches both the weight and the steps pattern, both in
\* range; its handler has returned with a weight row and no steps row
C1_Witness ==
    \E i \in Ids :
        /\ tasks[i].kind = "text" /\ tasks[i].pc = "done"
        /\ TEXTS[tasks[i].text] = <<"3", "0", "0">>
        /\ ~IsNone(TEXT_WEIGHT[tasks[i].text]) /\ ~IsNone(TEXT_STEPS[tasks[i].text])
        /\ steps_accepted(Val(TEXT_STEPS[tasks[i].text]))
        /\ tasks[i].fx = {"weight"}
        /\ Len(weights) = 1 /\ Len(steps) = 0

\* C2: of two photo events of one chat, at most one reaches the analysis call
\* within a cooldown window: no two of them make the call at the same instant
C2_OneAnalysisPerWindow ==
    \A i, j \in Ids :
        (/\ i # j
         /\ tasks[i].kind = "photo" /\ tasks[j].kind = "photo"
         /\ tasks[i].chat = tasks[j].chat
         /\ ~IsNone(tasks[i].called) /\ ~IsNone(tasks[j].called))
        => Val(tasks[i].called) # Val(tasks[j].called)

\* the pending fix a handler's user has in its chat
PendingOf(t) == get_pending_fix(pending_fixes, t.chat, t.user)

\* C3: a pending fix older than the time-to-live is never acted upon: the
\* handler that reads it goes on to remove it, without taking its message
\* reference; a handler takes a pending fix only when it is at most ten minutes
\* old; the removal leaves meals and the correction log alone, leaves no
\* pending fix of that user, and the message goes on to the reply rule
C3_StalePendingAbandoned ==
    [][\A i \in Ids :
          LET t == tasks[i]
              u == tasks'[i]
          IN  /\ (/\ t.kind = "text" /\ t.pc = "get_pending" /\ u.pc # "get_pending"
                  /\ ~IsNone(PendingOf(t))
                  /\ now - Val(PendingOf(t)).created_at > TTL)
                 => (/\ u.pc = "clear_stale" /\ u.via # "pending"
                     /\ meals' = meals /\ meal_corrections' = meal_corrections)
              /\ (t.via # "pending" /\ u.via = "pending")
                 => (/\ t.pc = "get_pending" /\ ~IsNone(PendingOf(t))
                     /\ now - Val(PendingOf(t)).created_at <= TTL
                     /\ u.ref = Val(PendingOf(t)).bot_message_id)
              /\ (t.kind = "text" /\ t.pc = "clear_stale" /\ u.pc # "clear_stale")
                 => (/\ IsNone(get_pending_fix(pending_fixes', t.chat, t.user))
                     /\ meals' = meals /\ meal_corrections' = meal_corrections
                     /\ u.via # "pending"
                     /\ u.trace = <<"pending", "reply">>)]_vars

\* C3: a handler has read a pending fix older than ten minutes, its text would
\* do as a correction, and it is about to remove the fix
C3_Witness ==
    \E i \in Ids :
        /\ tasks[i].kind = "text" /\ tasks[i].pc = "clear_stale"
        /\ Truthy(CorrectionOf(tasks[i]))
        /\ ~IsNone(PendingOf(tasks[i]))
        /\ now - Val(PendingOf(tasks[i])).created_at > TTL
        /\ Len(meals) = 1 /\ meals[1] = EARLIER_MEAL

\* C4: no failure on the way to an analysis leaves on_food_photo or on_text
C4_NoFailureEscapes ==
    \A i \in Ids : tasks[i].kind \in {"photo", "text"} => ~tasks[i].raised

\* C5: a photo event that has ended has sent a reply
C5_PhotoEndsWithReply ==
    \A i \in Ids :
        (tasks[i].kind = "photo" /\ tasks[i].pc \in {"done", "raised"})
        => tasks[i].replies # << >>

\* C6: every weight row is within [30, 300] kg and every steps row within
\* [300, 100000]
C6_EntriesInRange ==
    /\ \A k \in 1..Len(weights) :
          MIN_WEIGHT <= weights[k].weight /\ weights[k].weight <= MAX_WEIGHT
    /\ \A k \in 1..Len(steps) :
          MIN_STEPS <= steps[k].steps /\ steps[k].steps <= MAX_STEPS

\* C6: "300" was kept as the weight 300.0 and "500", which is no weight, as steps
C6_Witness ==
    /\ \E k \in 1..Len(weights) : weights[k].weight = MAX_WEIGHT
    /\ \E k \in 1..Len(steps) : steps[k].steps = 500

\* C7: every stored profile has a height within [120, 230] and a weight within
\* [30, 300]
C7_ProfilesInRange ==
    \A p \in profiles :
        /\ MIN_HEIGHT <= p.height_cm /\ p.height_cm <= MAX_HEIGHT
        /\ ~IsNone(p.weight_kg)
        /\ MIN_WEIGHT <= Val(p.weight_kg) /\ Val(p.weight_kg) <= MAX_WEIGHT

\* C8: every meal has both calorie bounds absent, or both present and ordered
C8_KcalRangeOrdered ==
    \A k \in 1..Len(meals) :
        \/ IsNone(meals[k].kcal_low) /\ IsNone(meals[k].kcal_high)
        \/ /\ ~IsNone(meals[k].kcal_low) /\ ~IsNone(meals[k].kcal_high)
           /\ Val(meals[k].kcal_low) <= Val(meals[k].kcal_high)

\* the analysis text names its calorie range upside down
Inverted(analysis) ==
    /\ ~IsNone(CAL_RANGE_RE(analysis))
    /\ Val(CAL_RANGE_RE(analysis))[1] > Val(CAL_RANGE_RE(analysis))[2]

\* C8: a correction whose re-analysis named the range upside down has rewritten
\* a meal, and a meal without calories is stored beside it
C8_Witness ==
    /\ \E i \in Ids :
          /\ tasks[i].kind = "text" /\ tasks[i].pc = "done" /\ tasks[i].fx = {"correction"}
          /\ Inverted(tasks[i].analysis)
          /\ \E k \in find_meal_by_bot_message(meals, tasks[i].chat, tasks[i].ref) :
                 meals[k].kcal_low = Some(650) /\ meals[k].kcal_high = Some(850)
    /\ \E k \in 1..Len(meals) : IsNone(meals[k].kcal_low) /\ IsNone(meals[k].kcal_high)

\* seq is old with rows added at its end
Extends(seq, old) == Len(seq) >= Len(old) /\ SubSeq(seq, 1, Len(old)) = old

\* C9: weight and steps rows are only ever added; meals are never removed,
\* none changes its chat, user, time or message reference, and one changes
\* only when a correction of its (chat, message reference) is written, a
\* correction that is in the correction log by then
C9_AppendOnly ==
    [][/\ Extends(weights', weights)
       /\ Extends(steps', steps)
       /\ Len(meals') >= Len(meals)
       /\ \A k \in 1..Len(meals) :
             /\ meals'[k].chat_id = meals[k].chat_id
             /\ meals'[k].user_id = meals[k].user_id
             /\ meals'[k].dt = meals[k].dt
             /\ meals'[k].bot_message_id = meals[k].bot_message_id
             /\ meals'[k] # meals[k] =>
                   /\ \E i \in Ids :
                         /\ tasks[i].kind = "text" /\ tasks[i].pc = "update_meal"
                         /\ tasks'[i].pc # "update_meal"
                         /\ tasks[i].chat = meals[k].chat_id
                         /\ tasks[i].ref = meals[k].bot_message_id
                   /\ \E c \in 1..Len(meal_corrections) :
                         /\ meal_corrections[c].chat_id = meals[k].chat_id
                         /\ meal_corrections[c].bot_message_id = meals[k].bot_message_id]_vars

\* C9: a correction has rewritten one meal while another meal with the same
\* message id, of another chat, is stored unchanged
C9_Witness ==
    \E i \in Ids :
        /\ tasks[i].kind = "text" /\ tasks[i].pc = "done" /\ tasks[i].fx = {"correction"}
        /\ \E k \in 1..Len(meals) :
              /\ meals[k].chat_id = tasks[i].chat /\ meals[k].bot_message_id = tasks[i].ref
              /\ meals[k].title = tasks[i].title
        /\ \E k \in 1..Len(meals) :
              /\ meals[k].chat_id # tasks[i].chat /\ meals[k].bot_message_id = tasks[i].ref
              /\ meals[k] = EARLIER_MEAL

\* the rows of profiles under the key of (scope, user)
ProfilesOf(tbl, scope, user) == {r \in tbl : r.chat_id = scope /\ r.user_id = user}

C11_LinkCopiesGlobal ==
    \A i \in Ids : tasks[i].kind = "link" => ~tasks[i].raised

\* C12: a number the weight or the steps pattern matched outside its range is
\* ignored without a word: when the weight is outside [30, 300] nothing is
\* stored or sent for it and the steps rule is evaluated next, its outcome
\* decided by the steps pattern alone; when the steps are outside
\* [300, 100000] the handler returns with nothing stored and nothing sent
C12_OutOfRangeIgnored ==
    [][\A i \in Ids :
          LET t  == tasks[i]
              t2 == tasks'[i]
              mw == TEXT_WEIGHT[t.text]
              ms == TEXT_STEPS[t.text]
              weight_out == ~IsNone(mw) /\ (Val(mw) < MIN_WEIGHT \/ Val(mw) > MAX_WEIGHT)
              steps_out  == ~IsNone(ms) /\ (Val(ms) < MIN_STEPS \/ Val(ms) > MAX_STEPS)
          IN  (t.kind = "text" /\ t.pc = "questions" /\ t2.pc # "questions" /\ IntentOf(t) = "") =>
                 /\ weight_out =>
                       /\ weights' = weights /\ steps' = steps /\ msg_seq' = msg_seq
                       /\ t2.replies = t.replies /\ t2.fx = t.fx
                       /\ t2.trace = t.trace \o <<"intent", "weight", "steps">>
                       /\ t2.pc = IF IsNone(ms) \/ steps_out THEN "done" ELSE "save_steps"
                 /\ (steps_out /\ t2.pc # "save_weight") =>
                       /\ weights' = weights /\ steps' = steps /\ msg_seq' = msg_seq
                       /\ t2.replies = t.replies /\ t2.fx = t.fx
                       /\ t2.trace = t.trace \o <<"intent", "weight", "steps">>
                       /\ t2.pc = "done"]_vars

\* C12: the text "500" was matched by the weight pattern and refused as a
\* weight; it went on to the steps rule and was stored as a step count only
C12_Witness ==
    \E i \in Ids :
        LET mw == TEXT_WEIGHT[tasks[i].text]
        IN  /\ tasks[i].kind = "text" /\ tasks[i].pc = "done"
            /\ ~IsNone(mw) /\ Val(mw) > MAX_WEIGHT
            /\ tasks[i].trace = CHAIN
            /\ tasks[i].fx = {"steps"}
            /\ Len(weights) = 0 /\ Len(steps) = 1

\* the step count a message states: the text is a number alone, or a number,
\* a space and the unit word; None for any other text
StatedSteps(k) ==
    LET t == TEXT_STRIPPED[k]
        n == DigitRun(t, 1)
    IN  IF n >= 1 /\ n <= 6
           /\ (n = Len(t) \/ SubSeq(t, n + 1, Len(t)) = <<" ", "/sh", "/a", "/g", "/o", "/v">>)
        THEN Some(ToInt(t, 1, n))
        ELSE None

\* C13: a message stating a step count s in [300, 100000], handled with no
\* correction pending and not as a reply to the bot, goes past the questions
\* to the steps rule with s and nothing else, and once its handler has
\* written, there is a steps row of its chat and user with the value s and
\* the message has produced nothing but that row
C13_StatedStepsStored ==
    \A i \in Ids :
        LET t == tasks[i]
            s == StatedSteps(t.text)
        IN  (/\ t.kind = "text" /\ t.reply_to = 0 /\ t.via = ""
             /\ Len(t.trace) >= 3
             /\ ~IsNone(s) /\ MIN_STEPS <= Val(s) /\ Val(s) <= MAX_STEPS)
            => /\ t.pc \in {"save_steps", "summary", "done"}
               /\ t.val = s
               /\ t.pc # "save_steps" =>
                     /\ t.fx = {"steps"}
                     /\ \E r \in 1..Len(steps) :
                           /\ steps[r].chat_id = t.chat /\ steps[r].user_id = t.user
                           /\ steps[r].steps = Val(s)

\* the rows of today a metric of a handler's user is derived from
MealsOf(t) == meals_today(meals, t.chat, t.user, now)

StepsOf(t) == RowsToday(steps, t.chat, t.user, now)

\* C14: a derived metric is answered with numbers only when its data exist:
\* the eaten-today answer needs a meal of today, the burned-today answer a
\* steps row of today, the balance and the summary need both; without them
\* the answer says that there is no data.  Stated of the first message of a
\* run, whose handler answers from the store as it still is.
C14_NoDataSaidSo ==
    \A i \in Ids :
        LET t == tasks[i]
        IN  (delivered = 1 /\ t.kind = "text" /\ t.pc = "done") =>
               \A n \in 1..Len(t.replies) :
                  LET r == t.replies[n]
                  IN  /\ r[1] = "eaten" => MealsOf(t) # << >>
                      /\ r[1] = "burned" => StepsOf(t) # << >>
                      /\ r[1] \in {"balance", "summary"} =>
                            (MealsOf(t) # << >> /\ StepsOf(t) # << >>)

\* C15: a correction whose message reference has no meal record ends with
\* the user told so and nothing else done: the handler of a text taken as a
\* correction (by a pending fix or as a reply to a message of the bot) and
\* the handler of a button press, once returned with its reference
\* unresolved, has sent exactly the not-found answer and has written no
\* correction, no weight and no steps
C15_UnresolvedReferenceAnswered ==
    \A i \in Ids :
        LET t == tasks[i]
        IN  (/\ t.pc = "done"
             /\ \/ t.kind = "text" /\ t.via \in {"pending", "reply"}
                \/ t.kind = "fix"
             /\ find_meal_by_bot_message(meals, t.chat, t.ref) = {})
            => /\ t.replies \in { << <<"fix_not_found">> >>, << <<"alert_not_found">> >> }
               /\ t.fx = {}

\* the meals of (chat, user) on the day of now, as positions in the table
TodayOf(chat, user) ==
    {k \in 1..Len(meals) : /\ meals[k].chat_id = chat /\ meals[k].user_id = user
                           /\ DayStart(now) <= meals[k].dt
                           /\ meals[k].dt < DayStart(now) + TicksPerDay}

\* those of them with both calorie bounds
KnownOf(chat, user) ==
    {k \in TodayOf(chat, user) : ~IsNone(meals[k].kcal_low) /\ ~IsNone(meals[k].kcal_high)}

\* round((low + high) / 2): the nearest integer, the even one of two
MidOf(k) ==
    LET n == Val(meals[k].kcal_low) + Val(meals[k].kcal_high)
    IN  CHOOSE m \in 0..n : /\ 2 * m - n \in {-1, 0, 1}
                            /\ n % 2 = 1 => m % 2 = 0

RECURSIVE SumMidOf(_)
SumMidOf(S) == IF S = {} THEN 0
               ELSE LET k == CHOOSE x \in S : TRUE IN MidOf(k) + SumMidOf(S \ {k})

\* C16: for every chat and user, total_intake_today returns the sum of the
\* midpoints of today's meals that have both bounds, the number of today's
\* meals and the number of those with both bounds, which is at most the
\* number of meals; rows of other users, chats and days do not count
C16_IntakeOverTodaysMeals ==
    \A c \in Chats, u \in Users :
        LET r == total_intake_today(meals, c, u, now)
        IN  /\ r[1] = SumMidOf(KnownOf(c, u))
            /\ r[2] = Cardinality(TodayOf(c, u))
            /\ r[3] = Cardinality(KnownOf(c, u))
            /\ r[3] <= r[2]

\* C16: the eaten-today question of user 1 in chat 100 was answered over a
\* table that also holds a meal of the day before, a meal without calories
\* and meals of another user and of another chat: three meals, two of them
\* known, 750 + 528 kcal
C16_Witness ==
    /\ Len(meals) = 6
    /\ Cardinality(TodayOf(100, 1)) = 3
    /\ \E k \in 1..Len(meals) : meals[k].chat_id = 100 /\ meals[k].user_id = 1
                                /\ k \notin TodayOf(100, 1)
    /\ \E k \in TodayOf(100, 1) : k \notin KnownOf(100, 1)
    /\ TodayOf(100, 2) # {} /\ TodayOf(200, 1) # {}
    /\ \E i \in Ids :
          /\ tasks[i].kind = "text" /\ tasks[i].pc = "done"
          /\ tasks[i].replies = << <<"eaten", 1278, 3, 2>> >>

\* the sum of today's steps rows of (chat, user)
RECURSIVE SumStepsOf(_)
SumStepsOf(S) == IF S = {} THEN 0
                 ELSE LET k == CHOOSE x \in S : TRUE IN steps[k].steps + SumStepsOf(S \ {k})

StepSumOf(chat, user) ==
    SumStepsOf({k \in 1..Len(steps) : /\ steps[k].chat_id = chat /\ steps[k].user_id = user
                                      /\ DayStart(now) <= steps[k].dt
                                      /\ steps[k].dt < DayStart(now) + TicksPerDay})

\* the figures of a balance: intake, burned, sign and balance agree
BalanceAgrees(t, intake, burned, sign, balance) ==
    /\ intake = SumMidOf(KnownOf(t.chat, t.user))
    /\ burned \in estimate_burned_kcal_from_steps(StepSumOf(t.chat, t.user),
                     profile_weight(get_profile(profiles, t.chat, t.user)))
    /\ balance = intake - burned
    /\ sign = IF balance > 0 THEN "+" ELSE ""
    /\ sign \in {"+", ""}

\* C17: whenever a handler sends the balance answer or the day summary, the
\* balance in it is the intake of today's known meals minus the kcal estimated
\* from today's steps and the profile weight, and it carries a leading "+"
\* exactly when it is positive, and nothing added when it is zero or negative
C17_BalanceSigned ==
    [][\A i \in Ids :
          LET t  == tasks[i]
              t2 == tasks'[i]
              r  == t2.replies[Len(t2.replies)]
          IN  (t.kind = "text" /\ t2.kind = "text" /\ Len(t2.replies) = Len(t.replies) + 1) =>
                 /\ r[1] = "balance" => BalanceAgrees(t, r[4], r[5], r[2], r[3])
                 /\ r[1] = "summary" => BalanceAgrees(t, r[4], r[6], r[7], r[8])]_vars

\* C17: over meals of 1278 kcal and 5000 steps the balance question was
\* answered with a positive balance and a leading "+"
C17_Witness ==
    \E i \in Ids :
        /\ tasks[i].kind = "text" /\ tasks[i].pc = "done" /\ Len(tasks[i].replies) = 1
        /\ tasks[i].replies[1][1] = "balance"
        /\ tasks[i].replies[1][2] = "+" /\ tasks[i].replies[1][3] > 0
        /\ tasks[i].replies[1][4] = 1278 /\ tasks[i].replies[1][5] > 0
        /\ StepSumOf(100, 1) = 5000

\* b is an integer nearest to steps * 0.04 * (weight / 70), the weight in
\* tenths of a kilogram, or to steps * 0.04 when there is no weight
NearestBurned(b, nsteps, weight_kg) ==
    IF IsNone(weight_kg)
    THEN 2 * (25 * b - nsteps) \in -25..25
    ELSE 2 * (17500 * b - nsteps * Val(weight_kg)) \in -17500..17500

\* C18: the kcal of every burned-today answer is the rounding of
\* steps * 0.04 * (weight / 70) for the step sum of the day and the profile
\* weight, and of steps * 0.04 when there is no profile; and the estimate of
\* (10000, 70.0), of (10000, no weight) and of (5000, 140.0) is 400
C18_BurnedIsRounded ==
    /\ [](/\ estimate_burned_kcal_from_steps(10000, Some(700)) = {400}
          /\ estimate_burned_kcal_from_steps(10000, None) = {400}
          /\ estimate_burned_kcal_from_steps(5000, Some(1400)) = {400})
    /\ [][\A i \in Ids :
             LET t  == tasks[i]
                 t2 == tasks'[i]
                 r  == t2.replies[Len(t2.replies)]
             IN  (/\ t.kind = "text" /\ t2.kind = "text"
                  /\ Len(t2.replies) = Len(t.replies) + 1 /\ r[1] = "burned")
                 => /\ r[2] = StepSumOf(t.chat, t.user)
                    /\ r[3] \in 0..r[2]
                    /\ NearestBurned(r[3], r[2], profile_weight(t.prof))]_vars

\* C18: the burned-today question was answered for 5000 steps and a profile
\* weight of 32.5 kg, where the product is no integer: 92.857 gave 93
C18_Witness ==
    \E i \in Ids :
        /\ tasks[i].kind = "text" /\ tasks[i].pc = "done"
        /\ ~IsNone(tasks[i].prof) /\ Val(tasks[i].prof).weight_kg = Some(325)
        /\ tasks[i].replies = << <<"burned", 5000, 93>> >>

\* the end of an explicit prefix of t, a prefix word with its colon; 0 if none
ExplicitPrefixEnd(t) ==
    LET p == CorrectPrefixEnd(t)
    IN  IF p > 0 /\ p <= Len(t) /\ t[p] = ":" THEN p + 1 ELSE 0

\* the correction the rules yield for a stripped text t, in their order: the
\* remainder after an explicit prefix; Y of "eto ne X, a Y"; the whole text if
\* it has at most 80 characters; nothing
RuledCorrection(t) ==
    LET hits == {i \in 1..Len(t) : ~IsNone(ASearchAt(t, i))}
    IN  IF ExplicitPrefixEnd(t) > 0 /\ ExplicitPrefixEnd(t) <= Len(t)
        THEN Some(strip(SubSeq(t, ExplicitPrefixEnd(t), Len(t))))
        ELSE IF EtoNeMatch(t) /\ hits # {}
             THEN Some(strip(Val(ASearchAt(t, CHOOSE i \in hits : \A j \in hits : i <= j))))
        ELSE IF Len(t) <= 80 THEN Some(t)
        ELSE None

\* C19: the correction text a handler took from its message is the one the
\* rules yield in their order: the remainder after an explicit prefix, else
\* Y of a message "eto ne X, a Y", else the whole message if it has at most
\* 80 characters; a longer message yields none
C19_CorrectionRulesInOrder ==
    \A i \in Ids :
        (tasks[i].kind = "text" /\ tasks[i].via # "") =>
            /\ tasks[i].corr = RuledCorrection(TextOf(tasks[i]))
            /\ EtoNeMatch(TextOf(tasks[i])) =>
                  \E q \in 1..Len(TextOf(tasks[i])) :
                      /\ SubSeq(TextOf(tasks[i]), q, q + 3) = <<",", " ", "/a", " ">>
                      /\ tasks[i].corr = Some(SubSeq(TextOf(tasks[i]), q + 4, Len(TextOf(tasks[i]))))

\* the question patterns in the order answer_questions tests them, each with
\* the answers that belong to it
ASK_ORDER == <<
    [pattern |-> ASK_MY_HW_RE,        answers |-> {"no_profile", "height_weight"}],
    [pattern |-> ASK_MY_HEIGHT_RE,    answers |-> {"no_height", "height"}],
    [pattern |-> ASK_MY_WEIGHT_RE,    answers |-> {"last_weight", "profile_weight", "no_weight"}],
    [pattern |-> ASK_EATEN_TODAY_RE,  answers |-> {"eaten"}],
    [pattern |-> ASK_BURNED_TODAY_RE, answers |-> {"burned"}],
    [pattern |-> ASK_BALANCE_RE,      answers |-> {"balance"}],
    [pattern |-> ASK_SUMMARY_RE,      answers |-> {"summary"}] >>

\* the patterns each text of TEXTS matches, as positions in ASK_ORDER
ASK_MATCHES ==
    [k \in DOMAIN TEXTS |-> {n \in DOMAIN ASK_ORDER : AskSearch(ASK_ORDER[n].pattern, TEXT_STRIPPED[k])}]

\* C20: when a handler gets through answer_questions, a text that matches
\* the combined height-and-weight pattern gets the combined answer, also when
\* it matches a standalone pattern; a text that matches some pattern gets
\* exactly one answer, that of the first pattern in the order it matches, and
\* the handler returns; a text that matches none gets no answer there
C20_CombinedPatternFirst ==
    [][\A i \in Ids :
          LET t  == tasks[i]
              t2 == tasks'[i]
              ms == ASK_MATCHES[t.text]
              r  == t2.replies[Len(t2.replies)]
          IN  (t.kind = "text" /\ t.pc = "questions" /\ t2.pc # "questions") =>
                 /\ 1 \in ms => (Len(t2.replies) = Len(t.replies) + 1 /\ r[1] \in ASK_ORDER[1].answers)
                 /\ ms # {} =>
                       /\ Len(t2.replies) = Len(t.replies) + 1
                       /\ t2.pc = "done"
                       /\ \E n \in ms : /\ \A m \in ms : n <= m
                                        /\ r[1] \in ASK_ORDER[n].answers
                 /\ ms = {} => (t2.replies = t.replies /\ "intent" \notin t2.fx)]_vars

\* C20: a text that matches the combined pattern and the standalone weight
\* pattern was answered with height and weight together
C20_Witness ==
    \E i \in Ids :
        /\ tasks[i].kind = "text" /\ tasks[i].pc = "done"
        /\ {1, 3} \subseteq ASK_MATCHES[tasks[i].text]
        /\ ~IsNone(tasks[i].prof)
        /\ tasks[i].replies = << <<"height_weight", 188, Some(700)>> >>

\* C21: the reply to a weight message that was stored while an earlier weight
\* of the same chat and user is on record carries, after the new value, a
\* trend comment and the signed difference from the previous value
C21_WeightReplyHasTrend ==
    \A i \in Ids :
        LET t == tasks[i]
            mine == {k \in 1..Len(weights) : weights[k].chat_id = t.chat /\ weights[k].user_id = t.user}
        IN  (/\ t.kind = "text" /\ t.pc = "done" /\ t.fx = {"weight"}
             /\ Cardinality(mine) >= 2)
            => \E n \in 1..Len(t.replies) :
                  LET r == t.replies[n]
                  IN  /\ r[1] = "weight_saved" /\ Len(r) >= 4
                      /\ r[3] \in {"down", "up", "stable"}

\* C22: the external analysis call of a photo handler is a suspension point:
\* the step that issues the request leaves the handler waiting in the call,
\* without the answer, so that other events can be taken up before the
\* answer arrives
C22_AnalysisCallSuspends ==
    [][\A i \in Ids :
          (/\ tasks[i].kind = "photo" /\ tasks[i].pc = "groq"
           /\ IsNone(tasks[i].called) /\ ~IsNone(tasks'[i].called))
          => /\ tasks'[i].pc = "groq"
             /\ tasks'[i].analysis = tasks[i].analysis]_vars

\* C23: once a photo handler has finished and its meal with message
\* reference r is stored, the button under the analysis message r carries r
C23_ButtonCarriesReference ==
    \A i \in Ids :
        LET t == tasks[i]
        IN  (/\ t.kind = "photo" /\ t.pc = "done"
             /\ \E k \in 1..Len(meals) :
                   meals[k].chat_id = t.chat /\ meals[k].bot_message_id = t.sent)
            => \A b \in buttons :
                  (b.chat = t.chat /\ b.message_id = t.sent) => b.data = t.sent

\* the chat ids of the rows of tbl whose flag is b
Flagged(tbl, b) == {r.chat_id : r \in {x \in tbl : x.bound = b}}

\* C24: a reminder that has run to its end has tried, once each, exactly the
\* chats whose flag was 1 when it read the table, whatever sends failed, and no
\* chat whose flag was 0 or that had no row; while it runs, the chats tried and
\* the chats still to try are together those chats
C24_BroadcastReachesBound ==
    \A i \in Ids :
        LET t     == tasks[i]
            tried == {t.attempts[k].chat : k \in 1..Len(t.attempts)}
            left  == {t.queue[k] : k \in 1..Len(t.queue)}
        IN  (t.kind = "reminder" /\ t.pc \in {"send", "done"})
            => /\ tried \cup left = Flagged(t.seen, 1)
               /\ tried \cap left = {}
               /\ Len(t.attempts) = Cardinality(tried)
               /\ tried \cap (Flagged(t.seen, 0) \cup (Chats \ Flagged(t.seen, 1))) = {}
               /\ t.pc = "done" => left = {}
               /\ ~t.raised

\* C24: one reminder went on to the second bound chat after the send to the
\* first failed, and another, fired after an /unbind, left that chat out
C24_Witness ==
    \E i, j \in Ids :
        /\ tasks[i].kind = "reminder" /\ tasks[i].pc = "done"
        /\ Len(tasks[i].attempts) = 2
        /\ ~tasks[i].attempts[1].ok /\ tasks[i].attempts[2].ok
        /\ tasks[j].kind = "reminder" /\ tasks[j].pc = "done"
        /\ Flagged(tasks[j].seen, 0) # {}
        /\ Len(tasks[j].attempts) = 1
        /\ tasks[j].attempts[1].chat \in Flagged(tasks[j].seen, 1)

\* C25: no two text handlers apply a correction through the same pending fix,
\* the record of one press for one meal of one user in one chat
C25_PendingConsumedOnce ==
    \A i, j \in Ids :
        (/\ i # j
         /\ tasks[i].kind = "text" /\ tasks[j].kind = "text"
         /\ tasks[i].via = "pending" /\ tasks[j].via = "pending"
         /\ tasks[i].chat = tasks[j].chat /\ tasks[i].user = tasks[j].user
         /\ tasks[i].ref = tasks[j].ref /\ tasks[i].pend = tasks[j].pend)
        => ~("correction" \in tasks[i].fx /\ "correction" \in tasks[j].fx)

\* C26: the meal a text handler of user U has corrected, through a pending fix
\* or through a reply to the bot's message, is a meal recorded for U
C26_OnlyOwnMealsCorrected ==
    \A i \in Ids :
        LET t == tasks[i]
        IN  (t.kind = "text" /\ "correction" \in t.fx)
            => \A k \in find_meal_by_bot_message(meals, t.chat, t.ref) :
                  meals[k].user_id = t.user

\* the meals table without the rows of one analysis message
WithoutMeal(tbl, chat_id, bot_message_id) ==
    SelectSeq(tbl, LAMBDA m : ~(m.chat_id = chat_id /\ m.bot_message_id = bot_message_id))

\* C27: the step that applies a correction gives the meal the first 120
\* characters of the correction text as its title and the range parsed from the
\* re-analysis as its range, low <= high; after a failed re-analysis or one
\* without a calorie line the range is unknown, whatever it was, and the meal
\* adds nothing to its owner's total of the day
C27_CorrectionOverwritesMeal ==
    [][\A i \in Ids :
          LET t    == tasks[i]
              corr == Val(CorrectionOf(t))
              hit  == find_meal_by_bot_message(meals, t.chat, t.ref)
          IN  (t.kind = "text" /\ t.pc = "update_meal" /\ tasks'[i].pc # "update_meal")
              => /\ Len(meals') = Len(meals)
                 /\ \A k \in 1..Len(meals) :
                       IF k \in hit
                       THEN /\ meals'[k].title = [n \in 1..Min(120, Len(corr)) |-> corr[n]]
                            /\ <<meals'[k].kcal_low, meals'[k].kcal_high>> = parse_kcal_range(t.analysis)
                            /\ IsNone(meals'[k].kcal_low) <=> IsNone(meals'[k].kcal_high)
                            /\ ~IsNone(meals'[k].kcal_low) => Val(meals'[k].kcal_low) <= Val(meals'[k].kcal_high)
                            /\ (t.failure \/ IsNone(CAL_RANGE_RE(t.analysis)))
                               => /\ IsNone(meals'[k].kcal_low)
                                  /\ total_intake_today(meals', t.chat, meals[k].user_id, now)[1]
                                     = total_intake_today(WithoutMeal(meals', t.chat, t.ref),
                                                          t.chat, meals[k].user_id, now)[1]
                            /\ meals'[k].user_id = meals[k].user_id /\ meals'[k].dt = meals[k].dt
                       ELSE meals'[k] = meals[k]]_vars

\* C27: a correction of 121 characters whose re-analysis timed out left the
\* meal of 650-850 kcal with a title of 120 characters and no range, and the
\* day's total at 0 with one meal counted
C27_Witness ==
    \E i \in Ids :
        /\ tasks[i].kind = "text" /\ tasks[i].pc = "done" /\ "correction" \in tasks[i].fx
        /\ tasks[i].failure
        /\ Len(Val(CorrectionOf(tasks[i]))) = 121
        /\ Len(meals) = 1
        /\ Len(meals[1].title) = 120
        /\ IsNone(meals[1].kcal_low) /\ IsNone(meals[1].kcal_high)
        /\ total_intake_today(meals, 100, 1, now) = <<0, 1, 0>>

\* C28: the write of the private dialogue follows three valid answers: the step
\* that writes the profile writes the name and the height the dialogue holds
\* and a weight that is a number within [30, 300], and clears the dialogue
C28_WriteFollowsValidAnswers ==
    [][\A i \in Ids :
          (tasks[i].kind = "weight" /\ tasks[i].pc = "upsert" /\ tasks'[i].pc # "upsert")
          => /\ fsm'[tasks[i].user] = NoDialogue
             /\ Len(tasks[i].name) \in 1..MAX_NAME
             /\ MIN_HEIGHT <= tasks[i].height /\ tasks[i].height <= MAX_HEIGHT
             /\ ~IsNone(tasks[i].val)
             /\ MIN_WEIGHT <= Val(tasks[i].val) /\ Val(tasks[i].val) <= MAX_WEIGHT]_vars

====
